---------------------------- MODULE Spec2Model ----------------------------
(***************************************************************************)
(* Model of the AlgoPoker tournament server (server.py, tournament.py,     *)
(* game.py, protocol.py, config.py).                                       *)
(*                                                                         *)
(* The server is a single asyncio event loop.  Every coroutine runs        *)
(* atomically from one suspension point (await) to the next, so each       *)
(* action below is one such segment of one coroutine:                      *)
(*   - one handle_connection coroutine per connection (server.py),         *)
(*   - the start task held in TournamentManager._start_task, which is      *)
(*     either _delayed_start or _start_tournament and, once the            *)
(*     tournament starts, runs _run_tournament / _run_hand to the end.     *)
(* A broadcast is delivered in the step that issues it; out[c] is the last *)
(* record sent to connection c, and is blank once a registered connection  *)
(* has closed.                                                             *)
(***************************************************************************)
EXTENDS Integers, Sequences, FiniteSets, TLC

(***************************************************************************)
(* Bounds of the model.  MIN_PLAYERS is the value of config.py; the table  *)
(* size, the starting stack and the blind schedule are tunables of         *)
(* config.py that the model explores scaled down (config.py: 9 seats,      *)
(* 10 000 chips).                                                          *)
(***************************************************************************)
MIN_PLAYERS == 2

MAX_PLAYERS == 3

STARTING_STACK == 1

MaxConns == 4

MaxHands == 2

MaxActions == 2

NameLimit == 32

Conns == 1..MaxConns

Seats == 0..(MAX_PLAYERS - 1)

NoSeat == -1

\* actor_index of the engine when no one is to act
NoPk == -1

\* the raise range of a prompt that offers a raise
RaiseMin == 2

RaiseMax == 3

(***************************************************************************)
(* Names.  A name is a sequence of characters; raw names are what a join   *)
(* record may carry, before server.py strips surrounding whitespace.       *)
(***************************************************************************)
LongName == [i \in 1..(NameLimit + 1) |-> "a"]

RawNames ==
    { <<>>, <<" ">>, <<"a">>, <<" ", "a">>, <<"a", " ">>, <<"b">>, <<"c">>,
      LongName }

IsSpace(ch) == ch = " "

RECURSIVE LStrip(_)
LStrip(s) ==
    IF s = <<>> THEN <<>>
    ELSE IF IsSpace(Head(s)) THEN LStrip(Tail(s)) ELSE s

RECURSIVE RStrip(_)
RStrip(s) ==
    IF s = <<>> THEN <<>>
    ELSE IF IsSpace(s[Len(s)]) THEN RStrip(SubSeq(s, 1, Len(s) - 1)) ELSE s

\* str(msg.get("name", "")).strip()
Strip(s) == RStrip(LStrip(s))

\* server.py: `if not name or len(name) > 32`
BadName(name) == name = <<>> \/ Len(name) > NameLimit

VARIABLES
    cpc,          \* cpc[c]: position of connection c's handle_connection
    players,      \* TournamentManager.players: sequence of PlayerInfo
    spectators,   \* TournamentManager.spectators (set of connections)
    started,      \* TournamentManager.started
    lobbyReady,   \* TournamentManager._lobby_ready (asyncio.Event)
    startTask,    \* TournamentManager._start_task
    tpc,          \* position of the tournament coroutine
    hand_number,  \* TournamentManager.hand_number
    dealer_seat,  \* TournamentManager.dealer_seat
    hand,         \* the PokerHand of the running hand
    mailbox,      \* mailbox[seat]: PlayerInfo.action_queue (maxsize 1)
    out,          \* out[c]: last record sent to connection c
    gameStarts,   \* number of game_start broadcasts so far
    startReq,     \* a start record was received in a lobby that may start
    received,     \* history: the action records the pump took from the
                  \* actor since the last drain of the actor's mailbox
    dealers,      \* history: for every hand begun so far, its dealer seat
                  \* and the seats that were active in it
    schedule,     \* config.BLIND_SCHEDULE: threshold hand number -> blinds
    blinds,       \* (sb, bb) that _run_hand took for the latest hand
    send_lock,    \* send_lock[c]: the asyncio.Lock of the session of c
    send_tasks,   \* the calls of PlayerInfo.send that have not returned
    wire          \* history: per connection, the sends in the order they
                  \* took the lock and in the order they reached the
                  \* transport

vars ==
    << cpc, players, spectators, started, lobbyReady, startTask, tpc,
       hand_number, dealer_seat, hand, mailbox, out, gameStarts, startReq,
       received, dealers, schedule, blinds, send_lock, send_tasks, wire >>


(***************************************************************************)
(* protocol.py: the records the server sends.  Every record has the same   *)
(* fields; a builder fills those of its type.                              *)
(***************************************************************************)
Blank ==
    [ type |-> "none", code |-> "", message |-> "", current_players |-> 0,
      player_names |-> <<>>, stacks |-> <<>>, hole_cards |-> <<>>,
      players |-> <<>>, actor_seat |-> NoSeat, action |-> "", amount |-> -1,
      timed_out |-> FALSE, hand_number |-> 0, revealed |-> <<>>,
      eliminated_seats |-> <<>>, winner_seat |-> NoSeat, winner |-> <<>>,
      dealer_seat |-> NoSeat, small_blind_seat |-> NoSeat,
      big_blind_seat |-> NoSeat ]

build_error(code, message) ==
    [Blank EXCEPT !.type = "error", !.code = code, !.message = message]

build_waiting(n) == [Blank EXCEPT !.type = "waiting", !.current_players = n]

build_game_start(names, stacks) ==
    [Blank EXCEPT !.type = "game_start", !.player_names = names,
                  !.stacks = stacks]

(***************************************************************************)
(* PlayerInfo / SpectatorInfo .send and the broadcast helpers.  A send on  *)
(* a closed connection is swallowed.                                       *)
(***************************************************************************)
Send(o, c, m) == IF cpc[c] = "closed" THEN o ELSE [o EXCEPT ![c] = m]

PlayerConns(ps) == { ps[i].websocket : i \in 1..Len(ps) }

PlayerOf(ps, c) == ps[CHOOSE i \in 1..Len(ps) : ps[i].websocket = c]

\* _broadcast: the same record to every non-eliminated player
Broadcast(o, ps, m) ==
    [c \in Conns |->
        IF /\ c \in PlayerConns(ps)
           /\ ~PlayerOf(ps, c).is_eliminated
           /\ cpc[c] # "closed"
        THEN m ELSE o[c]]

\* _broadcast_spectators
BroadcastSpectators(o, m) ==
    [c \in Conns |-> IF c \in spectators /\ cpc[c] # "closed" THEN m ELSE o[c]]

\* a fan-out that goes on after the send to the first player of the list
BroadcastPersonalizedFirst(o, ps, builder) ==
    [c \in Conns |->
        IF ps # <<>> /\ c = ps[1].websocket /\ cpc[c] # "closed"
        THEN builder[ps[1].seat_index] ELSE o[c]]

\* _broadcast_personalized: builder(p) to every player of the list
BroadcastPersonalized(o, ps, builder) ==
    [c \in Conns |->
        IF c \in PlayerConns(ps) /\ cpc[c] # "closed"
        THEN builder[PlayerOf(ps, c).seat_index] ELSE o[c]]

SeatsOf(ps) == { ps[i].seat_index : i \in 1..Len(ps) }

Names(ps) == [i \in 1..Len(ps) |-> ps[i].name]

Stacks(ps) == [i \in 1..Len(ps) |-> ps[i].stack]

(***************************************************************************)
(* The start task.                                                         *)
(***************************************************************************)
NoTask == [kind |-> "none", st |-> "done"]

\* `self._start_task is None or self._start_task.done()`
TaskFree(t) == t.kind = "none" \/ t.st = "done"

NoHand ==
    [ active |-> <<>>, dealer_pk |-> 0, sb_pk |-> 0, bb_pk |-> 0,
      dealt |-> <<>>, hole |-> <<>>, statuses |-> <<>>, actor |-> -1,
      offer |-> {}, over |-> FALSE, before_last |-> {}, valid |-> {},
      nacts |-> 0, applied |-> [type |-> "", amount |-> -1] ]

SendVars == << send_lock, send_tasks, wire >>

\* asyncio.Lock(): not locked, no waiter
FreeLock == [locked |-> FALSE, waiters |-> <<>>]

\* no call of send is under way; created counts the calls made so far
NoSends == [created |-> 0, pending |-> {}]

NoWire == [acquired |-> <<>>, sent |-> <<>>]

\* config.BLIND_SCHEDULE, scaled down: the thresholds 0, 10, 20 become
\* 0, 2, 4 and the blinds 50/100, 100/200, 200/400 become 1/2, 2/4, 4/8
BLIND_SCHEDULE == (0 :> <<1, 2>>) @@ (2 :> <<2, 4>>) @@ (4 :> <<4, 8>>)

\* no hand has taken its blinds yet
NoBlinds == <<0, 0>>

Init ==
    /\ cpc = [c \in Conns |-> "new"]
    /\ players = <<>>
    /\ spectators = {}
    /\ started = FALSE
    /\ lobbyReady = FALSE
    /\ startTask = NoTask
    /\ tpc = "idle"
    /\ hand_number = 0
    /\ dealer_seat = -1
    /\ hand = NoHand
    /\ mailbox = [s \in Seats |-> <<>>]
    /\ out = [c \in Conns |-> Blank]
    /\ gameStarts = 0
    /\ startReq = FALSE
    /\ received = <<>>
    /\ dealers = <<>>
    /\ schedule = BLIND_SCHEDULE
    /\ blinds = NoBlinds
    /\ send_lock = [c \in Conns |-> FreeLock]
    /\ send_tasks = NoSends
    /\ wire = [c \in Conns |-> NoWire]

(***************************************************************************)
(* server.py handle_connection, first record.  Connections are numbered in *)
(* the order in which their first record is handled.                       *)
(***************************************************************************)
IsNext(c) == cpc[c] = "new" /\ \A d \in Conns : d < c => cpc[d] # "new"

LobbyVars == << players, started, lobbyReady, startTask, startReq >>

TournVars ==
    << tpc, hand_number, dealer_seat, hand, gameStarts, received, dealers, schedule, blinds, send_lock, send_tasks, wire >>

\* the four BAD_JOIN texts of server.py say the same thing in different
\* words; the model keeps one
BadJoinText == "First message must be a join."

\* a server that answers a first record of another type as the pump does
FirstReplyToAsPump(kind) ==
    IF kind = "othertype" THEN build_error("UNKNOWN_TYPE", BadJoinText)
    ELSE build_error("BAD_JOIN", BadJoinText)

\* _send_error(websocket, ERR_BAD_JOIN, ...) for a first record that is
\* late, not JSON, not an object, or of a type other than join / spectate
FirstReplyTo(kind) == build_error("BAD_JOIN", BadJoinText)

\* No first record in 10 s, not JSON, not an object, or a type other than
\* join / spectate: BAD_JOIN and return.  A peer that closes first gets nothing.
FirstRecordBad(c) ==
    /\ IsNext(c)
    /\ \E kind \in {"timeout", "notjson", "notobject", "othertype", "closed"} :
          out' = IF kind = "closed" THEN out
                 ELSE [out EXCEPT ![c] = FirstReplyTo(kind)]
    /\ cpc' = [cpc EXCEPT ![c] = "closed"]
    /\ UNCHANGED << spectators, mailbox >>
    /\ UNCHANGED LobbyVars
    /\ UNCHANGED TournVars

\* {"type": "spectate"}: register_spectator
Spectate(c) ==
    /\ IsNext(c)
    /\ spectators' = spectators \cup {c}
    /\ cpc' = [cpc EXCEPT ![c] = "spect"]
    /\ UNCHANGED << mailbox, out >>
    /\ UNCHANGED LobbyVars
    /\ UNCHANGED TournVars

\* register_player that tests the table size before the started flag
RejectCodeFullFirst(ps, isStarted, name) ==
    IF Len(ps) >= MAX_PLAYERS THEN "TOURNAMENT_FULL"
    ELSE IF isStarted THEN "TOURNAMENT_STARTED"
    ELSE IF \E i \in 1..Len(ps) : ps[i].name = name THEN "BAD_NAME"
    ELSE ""

\* register_player with `>` for `>=` in the table size test
RejectCodeOffByOne(ps, isStarted, name) ==
    IF isStarted THEN "TOURNAMENT_STARTED"
    ELSE IF Len(ps) > MAX_PLAYERS THEN "TOURNAMENT_FULL"
    ELSE IF \E i \in 1..Len(ps) : ps[i].name = name THEN "BAD_NAME"
    ELSE ""

\* register_player that compares the new name with the last player only
RejectCodeLastName(ps, isStarted, name) ==
    IF isStarted THEN "TOURNAMENT_STARTED"
    ELSE IF Len(ps) >= MAX_PLAYERS THEN "TOURNAMENT_FULL"
    ELSE IF ps # <<>> /\ ps[Len(ps)].name = name THEN "BAD_NAME"
    ELSE ""

\* The checks of register_player, in the order of the code; "" when the
\* player is admitted.
RejectCode(ps, isStarted, name) ==
    IF isStarted THEN "TOURNAMENT_STARTED"
    ELSE IF Len(ps) >= MAX_PLAYERS THEN "TOURNAMENT_FULL"
    ELSE IF \E i \in 1..Len(ps) : ps[i].name = name THEN "BAD_NAME"
    ELSE ""

\* register_player numbering the seats from one
NewPlayerOneBased(ps, c, name) ==
    [ websocket |-> c, name |-> name, seat_index |-> Len(ps) + 1,
      stack |-> STARTING_STACK, is_eliminated |-> FALSE ]

\* register_player: PlayerInfo(websocket, name, seat_index=len(self.players))
NewPlayer(ps, c, name) ==
    [ websocket |-> c, name |-> name, seat_index |-> Len(ps),
      stack |-> STARTING_STACK, is_eliminated |-> FALSE ]

\* the texts register_player sends with its codes
RejectText(code) ==
    CASE code = "TOURNAMENT_STARTED" -> "Tournament already in progress."
      [] code = "TOURNAMENT_FULL" -> "Table is full."
      [] OTHER -> "Name is already taken."

NameLengthText == "Name must be 1-32 non-whitespace characters."

\* {"type": "join", "name": raw}: name validation of server.py, then
\* register_player up to its first await (the waiting broadcast).
Join(c, raw) ==
    /\ IsNext(c)
    /\ LET name == Strip(raw) IN
       IF BadName(name)
       THEN /\ out' = [out EXCEPT ![c] = build_error("BAD_NAME", NameLengthText)]
            /\ cpc' = [cpc EXCEPT ![c] = "closed"]
            /\ UNCHANGED players
       ELSE LET code == RejectCode(players, started, name) IN
            IF code # ""
            THEN /\ out' = [out EXCEPT ![c] = build_error(code, RejectText(code))]
                 /\ cpc' = [cpc EXCEPT ![c] = "closed"]
                 /\ UNCHANGED players
            ELSE LET ps == Append(players, NewPlayer(players, c, name))
                     w == build_waiting(Len(ps))
                 IN /\ players' = ps
                    /\ out' = BroadcastSpectators(Broadcast(out, ps, w), w)
                    /\ cpc' = [cpc EXCEPT ![c] = "joined"]
    /\ UNCHANGED << spectators, mailbox, started, lobbyReady, startTask,
                    startReq >>
    /\ UNCHANGED TournVars

\* register_player after the waiting broadcast: "Start immediately if full;
\* schedule start if min reached", on the roster as it is now.
StartTrigger(ps, t) ==
    IF Len(ps) = MAX_PLAYERS
    THEN IF TaskFree(t) THEN [kind |-> "start", st |-> "pending"] ELSE t
    ELSE IF Len(ps) = MIN_PLAYERS
    THEN IF TaskFree(t) THEN [kind |-> "delayed", st |-> "pending"] ELSE t
    ELSE t

JoinResume(c) ==
    /\ cpc[c] = "joined"
    /\ startTask' = StartTrigger(players, startTask)
    /\ cpc' = [cpc EXCEPT ![c] = "pump"]
    /\ UNCHANGED << players, spectators, started, lobbyReady, mailbox, out,
                    startReq >>
    /\ UNCHANGED TournVars

\* force_start that creates its task but never sets the event
ForceStartNoEvent(isStarted, ps, ready, t) ==
    IF isStarted THEN [ready |-> ready, task |-> t]
    ELSE IF Len(ps) < MIN_PLAYERS THEN [ready |-> ready, task |-> t]
    ELSE [ ready |-> ready,
           task |-> IF TaskFree(t) THEN [kind |-> "start", st |-> "pending"]
                    ELSE t ]

\* force_start that asks for one player fewer than MIN_PLAYERS
ForceStartOneShort(isStarted, ps, ready, t) ==
    IF isStarted THEN [ready |-> ready, task |-> t]
    ELSE IF Len(ps) < MIN_PLAYERS - 1 THEN [ready |-> ready, task |-> t]
    ELSE [ ready |-> TRUE,
           task |-> IF TaskFree(t) THEN [kind |-> "start", st |-> "pending"]
                    ELSE t ]

\* force_start
ForceStart(isStarted, ps, ready, t) ==
    IF isStarted THEN [ready |-> ready, task |-> t]
    ELSE IF Len(ps) < MIN_PLAYERS THEN [ready |-> ready, task |-> t]
    ELSE [ ready |-> TRUE,
           task |-> IF TaskFree(t) THEN [kind |-> "start", st |-> "pending"]
                    ELSE t ]

\* spectator loop: a {"type": "start"} record calls force_start
SpectatorStart(c) ==
    /\ cpc[c] = "spect"
    /\ LET r == ForceStart(started, players, lobbyReady, startTask) IN
          /\ lobbyReady' = r.ready
          /\ startTask' = r.task
    /\ startReq' = (startReq \/ (~started /\ Len(players) >= MIN_PLAYERS))
    /\ UNCHANGED << cpc, players, spectators, started, mailbox, out >>
    /\ UNCHANGED TournVars

\* spectator connection closes: remove_spectator
SpectatorClose(c) ==
    /\ cpc[c] = "spect"
    /\ spectators' = spectators \ {c}
    /\ cpc' = [cpc EXCEPT ![c] = "closed"]
    /\ out' = [out EXCEPT ![c] = Blank]
    /\ UNCHANGED mailbox
    /\ UNCHANGED LobbyVars
    /\ UNCHANGED TournVars


(***************************************************************************)
(* server.py handle_connection, message pump of a registered player.       *)
(***************************************************************************)
Sentinel == [kind |-> "sentinel", type |-> "", amount |-> -1]

NoAmount == -1

ActionRec(t, a) == [kind |-> "action", type |-> t, amount |-> a]

\* The action records a client may send: the four action types, a type the
\* protocol does not know, and an action that is not an object.
ClientActions ==
    { ActionRec("fold", NoAmount), ActionRec("check", NoAmount),
      ActionRec("call", NoAmount), ActionRec("raise", NoAmount),
      ActionRec("raise", 1), ActionRec("bet", NoAmount),
      [kind |-> "malformed", type |-> "", amount |-> NoAmount] }

\* a mailbox whose newest record takes the place of the one it holds
PutNowaitDisplace(q, m) == <<m>>

\* a mailbox without a capacity
PutNowaitUnbounded(q, m) == Append(q, m)

\* asyncio.Queue(maxsize=1).put_nowait: QueueFull is swallowed by the caller
PutNowait(q, m) == IF Len(q) >= 1 THEN q ELSE Append(q, m)

\* actor_seat
ActorSeat(h) == IF h.actor = NoPk THEN NoSeat ELSE h.active[h.actor + 1]

SeatOf(c) == PlayerOf(players, c).seat_index

\* the sender is the actor of a prompt whose drain has been done
AfterDrain(c) ==
    /\ tpc \in {"sending", "await"}
    /\ SeatOf(c) = ActorSeat(hand)

\* A record of type action goes to the mailbox
PlayerAction(c, m) ==
    /\ cpc[c] = "pump"
    /\ mailbox' = [mailbox EXCEPT ![SeatOf(c)] = PutNowait(@, m)]
    /\ received' = IF AfterDrain(c)
                   THEN Append(received, [rec |-> m, turn |-> tpc = "await"])
                   ELSE received
    /\ UNCHANGED << cpc, spectators, out >>
    /\ UNCHANGED LobbyVars
    /\ UNCHANGED << tpc, hand_number, dealer_seat, hand, gameStarts, dealers, schedule, blinds, send_lock, send_tasks, wire >>

\* The post-join records that are not actions: raw text that is not JSON,
\* JSON that is not an object, an object of another type, an object
\* without type
PumpRecords ==
    { [kind |-> "undecodable", type |-> ""],
      [kind |-> "nonobject", type |-> ""],
      [kind |-> "object", type |-> "start"],
      [kind |-> "object", type |-> ""] }

\* a pump that answers every such record with BAD_JSON
PumpReplyToAsJson(rec) == build_error("BAD_JSON", "Message is not valid JSON.")

\* message pump: the error that answers a record that is not an action
PumpReplyTo(rec) ==
    IF rec.kind = "undecodable"
    THEN build_error("BAD_JSON", "Message is not valid JSON.")
    ELSE IF rec.kind = "nonobject"
    THEN build_error("BAD_JSON", "Message must be a JSON object.")
    ELSE build_error("UNKNOWN_TYPE", "Unknown message type")

\* Undecodable or non-object record: BAD_JSON; any other type: UNKNOWN_TYPE
PlayerBadRecord(c) ==
    /\ cpc[c] = "pump"
    /\ \E rec \in PumpRecords : out' = Send(out, c, PumpReplyTo(rec))
    /\ UNCHANGED << cpc, spectators, mailbox >>
    /\ UNCHANGED LobbyVars
    /\ UNCHANGED TournVars

\* The connection closes: handle_disconnect puts the sentinel
PlayerClose(c) ==
    /\ cpc[c] = "pump"
    /\ mailbox' = [mailbox EXCEPT ![SeatOf(c)] = PutNowait(@, Sentinel)]
    /\ cpc' = [cpc EXCEPT ![c] = "closed"]
    /\ out' = [out EXCEPT ![c] = Blank]
    /\ UNCHANGED spectators
    /\ UNCHANGED LobbyVars
    /\ UNCHANGED TournVars

(***************************************************************************)
(* _delayed_start and _start_tournament.                                   *)
(***************************************************************************)
HandVars ==
    << hand_number, hand, mailbox, out, gameStarts, received, dealers, schedule, blinds, send_lock, send_tasks, wire >>

\* _start_tournament without its `if self.started: return`
StartTournamentUnguarded ==
    /\ started' = TRUE
    /\ dealer_seat' = players[1].seat_index
    /\ tpc' = "game_start"
    /\ startTask' = [startTask EXCEPT !.st = "running"]

\* _start_tournament up to its first await: only the first caller runs the
\* body
StartTournament ==
    IF started
    THEN /\ startTask' = [startTask EXCEPT !.st = "done"]
         /\ UNCHANGED << started, dealer_seat, tpc >>
    ELSE /\ started' = TRUE
         /\ dealer_seat' = players[1].seat_index
         /\ tpc' = "game_start"
         /\ startTask' = [startTask EXCEPT !.st = "running"]

\* the task created with _start_tournament gets to run
RunStartTask ==
    /\ startTask.kind = "start"
    /\ startTask.st = "pending"
    /\ StartTournament
    /\ UNCHANGED << cpc, players, spectators, lobbyReady, startReq >>
    /\ UNCHANGED HandVars

\* _delayed_start after `await self._lobby_ready.wait()`
AfterLobbyWait ==
    IF ~started
    THEN StartTournament
    ELSE /\ startTask' = [startTask EXCEPT !.st = "done"]
         /\ UNCHANGED << started, dealer_seat, tpc >>

\* the task created with _delayed_start gets to run: it blocks on the event
\* unless the event is already set
RunDelayedTask ==
    /\ startTask.kind = "delayed"
    /\ startTask.st = "pending"
    /\ IF lobbyReady
       THEN AfterLobbyWait
       ELSE /\ startTask' = [startTask EXCEPT !.st = "waiting"]
            /\ UNCHANGED << started, dealer_seat, tpc >>
    /\ UNCHANGED << cpc, players, spectators, lobbyReady, startReq >>
    /\ UNCHANGED HandVars

\* the event is set: the waiting _delayed_start resumes
WakeDelayedTask ==
    /\ startTask.kind = "delayed"
    /\ startTask.st = "waiting"
    /\ lobbyReady
    /\ AfterLobbyWait
    /\ UNCHANGED << cpc, players, spectators, lobbyReady, startReq >>
    /\ UNCHANGED HandVars

\* _start_tournament: the game_start broadcast to players and spectators
BroadcastGameStart ==
    /\ tpc = "game_start"
    /\ LET m == build_game_start(Names(players), Stacks(players)) IN
          out' = BroadcastSpectators(Broadcast(out, players, m), m)
    /\ gameStarts' = gameStarts + 1
    /\ tpc' = "loop"
    /\ UNCHANGED << cpc, players, spectators, mailbox, hand_number,
                    dealer_seat, hand, received, dealers, schedule, blinds, send_lock, send_tasks, wire >>
    /\ UNCHANGED << started, lobbyReady, startTask, startReq >>


(***************************************************************************)
(* tournament.py utilities.                                                *)
(***************************************************************************)
\* _active_players: the roster is kept in seat order, so the non-eliminated
\* players taken in roster order are sorted by seat_index
ActivePlayers(ps) == SelectSeq(ps, LAMBDA p : ~p.is_eliminated)

\* _rotate_dealer that advances two places
RotateDealerSkip(act, ds) ==
    LET n == Len(act)
        current == IF \E i \in 1..n : act[i].seat_index = ds
                   THEN (CHOOSE i \in 1..n : act[i].seat_index = ds) - 1
                   ELSE -1
    IN act[((current + 2) % n) + 1].seat_index

\* _rotate_dealer
RotateDealer(act, ds) ==
    LET n == Len(act)
        current == IF \E i \in 1..n : act[i].seat_index = ds
                   THEN (CHOOSE i \in 1..n : act[i].seat_index = ds) - 1
                   ELSE -1
    IN act[((current + 1) % n) + 1].seat_index

\* _find_pk
FindPk(act, seat) ==
    IF \E i \in 1..Len(act) : act[i].seat_index = seat
    THEN (CHOOSE i \in 1..Len(act) : act[i].seat_index = seat) - 1
    ELSE 0

(***************************************************************************)
(* game.py PokerHand over the rules engine (PokerKit), which is a black    *)
(* box: which actions it offers, when the hand ends, which hands it mucks  *)
(* at showdown and the final stacks are its choices.  Cards are numbers    *)
(* 1..2*MAX_PLAYERS; 0 is the placeholder "??".  pk indices are 0-based as *)
(* in the code.                                                            *)
(***************************************************************************)
Hidden == 0

Pks(h) == 0..(Len(h.active) - 1)

\* the two cards the deck of hand number d gives to pk: no card is dealt
\* twice in a hand, and the deck changes from hand to hand
DealtCards(d, pk) ==
    << ((2 * pk + d) % (2 * MAX_PLAYERS)) + 1,
       ((2 * pk + 1 + d) % (2 * MAX_PLAYERS)) + 1 >>

\* what the engine may offer an actor: fold only when chips are owed
OfferSets == { {"fold", "call", "raise"}, {"check"} }

\* PokerHand.__init__, sb_pk with the heads-up case left out
SbPkRing(n, dealer_pk) == (dealer_pk + 1) % n

\* PokerHand.__init__: heads-up the dealer posts the small blind
SbPk(n, dealer_pk) == IF n = 2 THEN dealer_pk ELSE (dealer_pk + 1) % n

\* PokerHand.__init__: heads-up the other player posts the big blind
BbPk(n, dealer_pk) == IF n = 2 THEN 1 - dealer_pk ELSE (dealer_pk + 2) % n

\* PokerHand.__init__; the engine deals the hole cards and names the first
\* actor (heads-up the dealer, else the seat after the big blind)
NewHand(act, dealer_pk, d, offer) ==
    LET n == Len(act)
        sb == SbPk(n, dealer_pk)
        bb == BbPk(n, dealer_pk)
        cards == [pk \in 0..(n - 1) |-> DealtCards(d, pk)]
    IN [ active |-> [i \in 1..n |-> act[i].seat_index],
         dealer_pk |-> dealer_pk, sb_pk |-> sb, bb_pk |-> bb,
         dealt |-> cards, hole |-> cards,
         statuses |-> [pk \in 0..(n - 1) |-> TRUE],
         actor |-> IF n = 2 THEN sb ELSE (bb + 1) % n,
         offer |-> offer, over |-> FALSE,
         before_last |-> 0..(n - 1), valid |-> {}, nacts |-> 0,
         applied |-> NoHand.applied ]

\* _seat_to_pk
SeatToPk(h, seat) ==
    (CHOOSE i \in 1..Len(h.active) : h.active[i] = seat) - 1

\* get_valid_actions: the action types the engine offers now
GetValidActions(h) == IF h.over \/ h.actor = NoPk THEN {} ELSE h.offer

\* get_hole_cards
GetHoleCards(h, seat) == h.hole[SeatToPk(h, seat)]

\* get_game_state that censors the perspective player and reveals the others
ViewOfCardsSwapped(h, pk, perspective_pk) ==
    IF pk # perspective_pk
    THEN [hole_cards |-> h.hole[pk], hole_cards_known |-> TRUE]
    ELSE [hole_cards |-> [i \in 1..Len(h.hole[pk]) |-> Hidden],
          hole_cards_known |-> FALSE]

\* the hole_cards entry of player pk in get_game_state(perspective_seat)
ViewOfCards(h, pk, perspective_pk) ==
    IF pk = perspective_pk
    THEN [hole_cards |-> h.hole[pk], hole_cards_known |-> TRUE]
    ELSE [hole_cards |-> [i \in 1..Len(h.hole[pk]) |-> Hidden],
          hole_cards_known |-> FALSE]

\* get_game_state: the players list from one player's perspective
GetGameState(h, perspective_seat) ==
    LET ppk == SeatToPk(h, perspective_seat) IN
    [i \in 1..Len(h.active) |->
        LET v == ViewOfCards(h, i - 1, ppk) IN
        [ seat |-> h.active[i], is_active |-> h.statuses[i - 1],
          hole_cards |-> v.hole_cards,
          hole_cards_known |-> v.hole_cards_known ]]

\* get_spectator_game_state that censors every hand
GetSpectatorGameStateCensored(h) ==
    [i \in 1..Len(h.active) |->
        [ seat |-> h.active[i], is_active |-> h.statuses[i - 1],
          hole_cards |-> [j \in 1..Len(h.hole[i - 1]) |-> Hidden],
          hole_cards_known |-> FALSE ]]

\* get_spectator_game_state: every player's hole cards are revealed
GetSpectatorGameState(h) ==
    [i \in 1..Len(h.active) |->
        [ seat |-> h.active[i], is_active |-> h.statuses[i - 1],
          hole_cards |-> h.hole[i - 1], hole_cards_known |-> TRUE ]]

\* get_game_state and get_spectator_game_state: the dealer and blind seats
\* every game state carries, read from the engine's player indices
InGameState(h, m) ==
    [m EXCEPT !.dealer_seat = h.active[h.dealer_pk + 1],
              !.small_blind_seat = h.active[h.sb_pk + 1],
              !.big_blind_seat = h.active[h.bb_pk + 1]]

build_hand_start(hn, ds, sb_seat, bb_seat, names, stacks, cards) ==
    [Blank EXCEPT !.type = "hand_start", !.hand_number = hn,
                  !.dealer_seat = ds, !.small_blind_seat = sb_seat,
                  !.big_blind_seat = bb_seat, !.player_names = names,
                  !.stacks = stacks, !.hole_cards = cards]

build_action_request(actor_seat, hn, game_state) ==
    [Blank EXCEPT !.type = "action_request", !.actor_seat = actor_seat,
                  !.hand_number = hn, !.players = game_state]

build_action_result(actor_seat, hn, action_type, amount, timed_out, state) ==
    [Blank EXCEPT !.type = "action_result", !.actor_seat = actor_seat,
                  !.hand_number = hn, !.action = action_type,
                  !.amount = amount, !.timed_out = timed_out,
                  !.players = state]


\* build_hand_end as tournament.py calls it and the protocol describes it
\* (hand_number, hole_cards_revealed, final_stacks, player_names,
\* eliminated_seats)
build_hand_end(hn, revealed, final_stacks, names, eliminated) ==
    [Blank EXCEPT !.type = "hand_end", !.hand_number = hn,
                  !.revealed = revealed, !.stacks = final_stacks,
                  !.player_names = names, !.eliminated_seats = eliminated]

build_game_end(winner_name, winner_seat, final_stacks, names, total_hands) ==
    [Blank EXCEPT !.type = "game_end", !.winner = winner_name,
                  !.winner_seat = winner_seat,
                  !.stacks = final_stacks, !.player_names = names,
                  !.hand_number = total_hands]

(***************************************************************************)
(* _run_tournament / _run_hand.                                            *)
(***************************************************************************)
StartVars == << started, lobbyReady, startReq >>

SetMax(S) == CHOOSE x \in S : \A y \in S : y <= x

\* the threshold keys of the schedule that hand number hn has reached
ApplicableKeys(sched, hn) == { k \in DOMAIN sched : k <= hn }

\* _get_blinds that takes the lowest threshold reached
GetBlindsLowest(sched, hn) ==
    sched[CHOOSE k \in ApplicableKeys(sched, hn) :
             \A j \in ApplicableKeys(sched, hn) : k <= j]

\* _get_blinds: schedule[max(k for k in schedule if k <= hand_number)]
GetBlinds(sched, hn) == sched[SetMax(ApplicableKeys(sched, hn))]

\* a tournament loop that stops when two players are left
LoopContinuesToTwo(act) == Len(act) > 2

\* _run_tournament: while len(self._active_players()) > 1
LoopContinues(act) == Len(act) > 1

\* a tournament loop that counts the hands in twos
NextHandNumberSkip(n) == n + 2

\* _run_tournament: self.hand_number += 1
NextHandNumber(n) == n + 1

\* _run_tournament loop, _run_hand up to the hand_start broadcasts
BeginHand ==
    /\ tpc = "loop"
    /\ hand_number < MaxHands
    /\ LET act == ActivePlayers(players)
           n == Len(act)
           hn == NextHandNumber(hand_number)
           ds == RotateDealer(act, dealer_seat)
           dealer_pk == FindPk(act, ds)
           sb_seat == act[(IF n > 2 THEN (dealer_pk + 1) % n
                           ELSE dealer_pk) + 1].seat_index
           bb_seat == act[(IF n > 2 THEN (dealer_pk + 2) % n
                           ELSE 1 - dealer_pk) + 1].seat_index
       IN /\ LoopContinues(act)
          /\ \E offer \in { o \in OfferSets : "fold" \in o } :
                LET h == NewHand(act, dealer_pk, hn, offer) IN
                   /\ hand' = h
                   /\ out' = BroadcastSpectators(
                                BroadcastPersonalized(out, act,
                                   [s \in SeatsOf(act) |->
                                      build_hand_start(hn, ds,
                                         sb_seat, bb_seat, Names(act),
                                         Stacks(act), GetHoleCards(h, s))]),
                                build_hand_start(hn, ds, sb_seat, bb_seat,
                                   Names(act), Stacks(act), <<>>))
          /\ hand_number' = hn
          /\ dealer_seat' = ds
    /\ tpc' = "prompt"
    /\ dealers' = Append(dealers,
                         [dealer |-> dealer_seat',
                          active |-> SeatsOf(ActivePlayers(players))])
    /\ blinds' = GetBlinds(schedule, hand_number')
    /\ UNCHANGED schedule
    /\ UNCHANGED SendVars
    /\ UNCHANGED << cpc, players, spectators, mailbox, gameStarts,
                    startTask, received >>
    /\ UNCHANGED StartVars

\* the players of the running hand (the list `active` of _run_hand)
HandPlayers(h) == [i \in 1..Len(h.active) |-> players[h.active[i] + 1]]

\* a drain that leaves the mailbox as it is
DrainNothing(q) == q

\* `while not action_queue.empty(): action_queue.get_nowait()`
Drain(q) == <<>>

\* action loop: capture valid_actions and drain the actor's mailbox.  The
\* drain is followed by the awaited sends of the action_request, gathered
\* as tasks: the event loop may run the message pumps before the request
\* has gone out to the actor.
Prompt ==
    /\ tpc = "prompt"
    /\ ~hand.over
    /\ hand.actor # NoPk
    /\ hand' = [hand EXCEPT !.valid = GetValidActions(hand),
                            !.applied = NoHand.applied]
    /\ mailbox' = [mailbox EXCEPT ![ActorSeat(hand)] = Drain(@)]
    /\ received' = <<>>
    /\ tpc' = "sending"
    /\ UNCHANGED << cpc, players, spectators, hand_number, dealer_seat,
                    gameStarts, startTask, out, dealers, schedule, blinds, send_lock, send_tasks, wire >>
    /\ UNCHANGED StartVars

\* action loop: the action_request has gone out to the players of the hand
\* and to the spectators; _get_action starts to wait for the answer
SendRequest ==
    /\ tpc = "sending"
    /\ LET aseat == ActorSeat(hand) IN
          /\ out' = BroadcastSpectators(
                       BroadcastPersonalized(out, HandPlayers(hand),
                          [s \in SeatsOf(HandPlayers(hand)) |->
                             InGameState(hand,
                                build_action_request(aseat, hand_number,
                                   GetGameState(hand, s)))]),
                       InGameState(hand,
                          build_action_request(aseat, hand_number,
                             GetSpectatorGameState(hand))))
    /\ tpc' = "await"
    /\ UNCHANGED << cpc, players, spectators, hand_number, dealer_seat,
                    gameStarts, startTask, hand, mailbox, received,
                    dealers, schedule, blinds, send_lock, send_tasks, wire >>
    /\ UNCHANGED StartVars

Fold(timed_out, err) ==
    [type |-> "fold", amount |-> NoAmount, timed_out |-> timed_out,
     err |-> err]

Max(a, b) == IF a >= b THEN a ELSE b

Min(a, b) == IF a <= b THEN a ELSE b

\* _get_action that reports the raise amount as the client sent it
GetActionUnclamped(msg, valid) ==
    IF msg = Sentinel THEN Fold(TRUE, FALSE)
    ELSE IF msg.kind = "malformed" THEN Fold(TRUE, TRUE)
    ELSE IF msg.type \notin valid THEN Fold(TRUE, TRUE)
    ELSE IF msg.type = "raise" /\ msg.amount = NoAmount THEN Fold(TRUE, TRUE)
    ELSE [type |-> msg.type, amount |-> msg.amount, timed_out |-> FALSE,
          err |-> FALSE]

\* _get_action on the record taken from the mailbox: (action_type, amount,
\* timed_out), and whether a BAD_ACTION error goes to the actor
GetAction(msg, valid) ==
    IF msg = Sentinel THEN Fold(TRUE, FALSE)
    ELSE IF msg.kind = "malformed" THEN Fold(TRUE, TRUE)
    ELSE IF msg.type \notin valid THEN Fold(TRUE, TRUE)
    ELSE IF msg.type = "raise"
    THEN IF msg.amount = NoAmount THEN Fold(TRUE, TRUE)
         ELSE [type |-> "raise",
               amount |-> Max(RaiseMin, Min(RaiseMax, msg.amount)),
               timed_out |-> FALSE, err |-> FALSE]
    ELSE [type |-> msg.type, amount |-> msg.amount, timed_out |-> FALSE,
          err |-> FALSE]

\* asyncio.TimeoutError in _get_action
TimedOut == Fold(TRUE, FALSE)

\* the engine accepts an action it offers (check and call are one engine
\* call); a fold that it does not offer raises
EngineAccepts(h, action_type) ==
    \/ action_type \in {"check", "call"}
    \/ action_type \in h.offer

NextPk(h, st) ==
    LET n == Len(h.active)
        k == CHOOSE k \in 1..n :
                /\ st[(h.actor + k) % n]
                /\ \A j \in 1..(k - 1) : ~st[(h.actor + j) % n]
    IN (h.actor + k) % n

\* apply_action: the amount that reaches the engine; a raise is clamped
\* once more to the engine's range, fold / check / call take no amount
EngineAmount(action_type, amount) ==
    IF action_type # "raise" THEN NoAmount
    ELSE IF amount = NoAmount THEN RaiseMin
    ELSE Max(RaiseMin, Min(RaiseMax, amount))

\* apply_action: the snapshot _active_before_last_action, then the engine.
\* The set of hands the engine may be in afterwards.
ApplyAction(h, action_type, amount) ==
    LET before == { pk \in Pks(h) : h.statuses[pk] }
        st == IF action_type = "fold"
              THEN [h.statuses EXCEPT ![h.actor] = FALSE] ELSE h.statuses
        hole == IF action_type = "fold"
                THEN [h.hole EXCEPT ![h.actor] = <<>>] ELSE h.hole
        left == { pk \in Pks(h) : st[pk] }
        base == [h EXCEPT !.before_last = before, !.statuses = st,
                          !.hole = hole, !.nacts = h.nacts + 1,
                          !.applied = [type |-> action_type,
                                       amount |-> EngineAmount(action_type,
                                                               amount)]]
        byFolds == [base EXCEPT !.over = TRUE, !.actor = NoPk,
                                !.hole = [pk \in Pks(h) |-> <<>>]]
        showdowns ==
            { [base EXCEPT !.over = TRUE, !.actor = NoPk,
                           !.hole = [pk \in Pks(h) |->
                                        IF pk \in shown THEN h.dealt[pk]
                                        ELSE <<>>]] :
              shown \in {left} \cup { {pk} : pk \in left } }
        goOn == { [base EXCEPT !.actor = NextPk(h, st), !.offer = o] :
                  o \in OfferSets }
    IN IF Cardinality(left) = 1 THEN {byFolds}
       ELSE IF h.nacts + 1 >= MaxActions THEN showdowns
       ELSE showdowns \cup goOn

\* the hand loop takes the actor's answer (a mailbox record or the action
\* timeout), applies it and broadcasts the action_result
Act ==
    /\ tpc = "await"
    /\ LET aseat == ActorSeat(hand)
           actor == players[aseat + 1]
           r == IF mailbox[aseat] = <<>> THEN TimedOut
                ELSE GetAction(Head(mailbox[aseat]), hand.valid)
           o1 == IF r.err
                 THEN Send(out, actor.websocket, build_error("BAD_ACTION", ""))
                 ELSE out
       IN /\ mailbox' = [mailbox EXCEPT ![aseat] = <<>>]
          /\ IF EngineAccepts(hand, r.type)
             THEN /\ \E h \in ApplyAction(hand, r.type, r.amount) :
                       /\ hand' = [h EXCEPT !.valid = {}]
                       /\ out' = BroadcastSpectators(
                             BroadcastPersonalized(o1, HandPlayers(hand),
                                [s \in SeatsOf(HandPlayers(hand)) |->
                                   InGameState(h,
                                      build_action_result(aseat,
                                         hand_number, r.type, r.amount,
                                         r.timed_out, GetGameState(h, s)))]),
                             InGameState(h,
                                build_action_result(aseat, hand_number,
                                   r.type, r.amount, r.timed_out,
                                   GetSpectatorGameState(h))))
                  /\ tpc' = "prompt"
                  /\ UNCHANGED startTask
             ELSE /\ out' = o1
                  /\ tpc' = "crashed"
                  /\ startTask' = [startTask EXCEPT !.st = "done"]
                  /\ UNCHANGED hand
    /\ UNCHANGED << cpc, players, spectators, hand_number, dealer_seat,
                    gameStarts, received, dealers, schedule, blinds, send_lock, send_tasks, wire >>
    /\ UNCHANGED StartVars


RECURSIVE SumSeq(_)
SumSeq(q) == IF q = <<>> THEN 0 ELSE Head(q) + SumSeq(Tail(q))

\* The final stacks the engine may report for n players: chips move between
\* the players of the hand, none is created or lost.
RECURSIVE Dist(_, _)
Dist(n, total) ==
    IF n = 0 THEN (IF total = 0 THEN {<<>>} ELSE {})
    ELSE UNION { { Append(q, k) : q \in Dist(n - 1, total - k) } :
                 k \in 0..total }

\* the entries of hole_cards_revealed for the pk indices of pks, in pk order
RevealedEntries(h, pks) ==
    LET inPks == SelectSeq([i \in 1..Len(h.active) |-> i - 1],
                           LAMBDA pk : pk \in pks)
    IN [j \in 1..Len(inPks) |->
           [seat |-> h.active[inPks[j] + 1], hole_cards |-> h.dealt[inPks[j]]]]

\* get_hand_result that reveals only the hands the engine left tabled
RevealedTabled(h) ==
    RevealedEntries(h, { pk \in Pks(h) : h.hole[pk] # <<>> })

\* get_hand_result: hole_cards_revealed
Revealed(h) ==
    IF \E pk \in Pks(h) : h.hole[pk] # <<>>
    THEN RevealedEntries(h, h.before_last)
    ELSE <<>>

\* the stack update without the elimination bookkeeping
WriteBackStacksForgetBusted(ps, h, final) ==
    [i \in 1..Len(ps) |->
        IF \E k \in 1..Len(h.active) : h.active[k] = ps[i].seat_index
        THEN LET k == CHOOSE k \in 1..Len(h.active) :
                         h.active[k] = ps[i].seat_index
             IN [ps[i] EXCEPT !.stack = final[k]]
        ELSE ps[i]]

\* the stack update that marks a busted player eliminated but leaves the
\* stack of the previous hand in place
WriteBackStacksKeepBusted(ps, h, final) ==
    [i \in 1..Len(ps) |->
        IF \E k \in 1..Len(h.active) : h.active[k] = ps[i].seat_index
        THEN LET k == CHOOSE k \in 1..Len(h.active) :
                         h.active[k] = ps[i].seat_index
             IN IF final[k] = 0 THEN [ps[i] EXCEPT !.is_eliminated = TRUE]
                ELSE [ps[i] EXCEPT !.stack = final[k]]
        ELSE ps[i]]

\* _run_hand: "Update tournament stacks from PokerKit results"
WriteBackStacks(ps, h, final) ==
    [i \in 1..Len(ps) |->
        IF \E k \in 1..Len(h.active) : h.active[k] = ps[i].seat_index
        THEN LET k == CHOOSE k \in 1..Len(h.active) :
                         h.active[k] = ps[i].seat_index
             IN [ps[i] EXCEPT !.stack = final[k],
                              !.is_eliminated = (@ \/ final[k] = 0)]
        ELSE ps[i]]

\* _run_hand after the action loop: results, stacks, eliminations, hand_end
EndHand ==
    /\ tpc = "prompt"
    /\ hand.over \/ hand.actor = NoPk
    /\ \E final \in Dist(Len(hand.active), SumSeq(Stacks(HandPlayers(hand)))) :
          LET ps == WriteBackStacks(players, hand, final)
              newly == SelectSeq(hand.active,
                          LAMBDA seat : ps[seat + 1].stack = 0
                                        /\ ~players[seat + 1].is_eliminated)
              m == build_hand_end(hand_number, Revealed(hand), Stacks(ps),
                                  Names(ps), newly)
          IN /\ players' = ps
             /\ out' = BroadcastSpectators(Broadcast(out, ps, m), m)
    /\ hand' = NoHand
    /\ received' = <<>>
    /\ tpc' = "loop"
    /\ UNCHANGED << cpc, spectators, mailbox, hand_number, dealer_seat,
                    gameStarts, startTask, dealers, schedule, blinds, send_lock, send_tasks, wire >>
    /\ UNCHANGED StartVars

\* _run_tournament after the loop: game_end, and the start task is done
EndTournament ==
    /\ tpc = "loop"
    /\ LET act == ActivePlayers(players)
           winner_name == IF act # <<>> THEN act[1].name ELSE <<"?">>
           winner_seat == IF act # <<>> THEN act[1].seat_index ELSE -1
           m == build_game_end(winner_name, winner_seat, Stacks(players),
                               Names(players), hand_number)
       IN /\ ~LoopContinues(act)
          /\ out' = BroadcastSpectators(Broadcast(out, players, m), m)
    /\ tpc' = "done"
    /\ startTask' = [startTask EXCEPT !.st = "done"]
    /\ UNCHANGED << cpc, players, spectators, mailbox, hand_number,
                    dealer_seat, hand, gameStarts, received, dealers, schedule, blinds, send_lock, send_tasks, wire >>
    /\ UNCHANGED StartVars

(***************************************************************************)
(* The lobby system: connections, the start task and the start of the      *)
(* tournament.  Here the clients send no record after their join, and the  *)
(* hands of the tournament are summarised by RunTournament; HandSpec below *)
(* runs them step by step.                                                 *)
(***************************************************************************)
\* _run_tournament as seen from the lobby: the coroutine runs hands until it
\* returns, one player holding all the chips, or an exception ends it (here
\* before any stack is written back); the start task is done.
TournamentOutcomes(ps) ==
    {Stacks(ps)} \cup
    { [i \in 1..Len(ps) |-> IF i = w THEN SumSeq(Stacks(ps)) ELSE 0] :
      w \in 1..Len(ps) }

RunTournament ==
    /\ tpc = "loop"
    /\ \E final \in TournamentOutcomes(players) :
          players' = [i \in 1..Len(players) |->
                         [players[i] EXCEPT !.stack = final[i],
                                            !.is_eliminated = (final[i] = 0)]]
    /\ tpc' = "done"
    /\ startTask' = [startTask EXCEPT !.st = "done"]
    /\ UNCHANGED << cpc, spectators, mailbox, out, hand_number, dealer_seat,
                    hand, gameStarts, received, dealers, schedule, blinds, send_lock, send_tasks, wire >>
    /\ UNCHANGED StartVars

Connection ==
    \E c \in Conns :
        \/ FirstRecordBad(c)
        \/ Spectate(c)
        \/ \E raw \in RawNames : Join(c, raw)
        \/ JoinResume(c)
        \/ SpectatorStart(c)
        \/ SpectatorClose(c)
        \/ PlayerClose(c)

StartTaskStep == RunStartTask \/ RunDelayedTask \/ WakeDelayedTask

Next == Connection \/ StartTaskStep \/ BroadcastGameStart \/ RunTournament

Spec == Init /\ [][Next]_vars

\* The event loop runs every coroutine that is ready: a created task, a task
\* whose event is set, a handler whose broadcast completed.  Nothing obliges
\* a client to connect or to send.
Fairness ==
    /\ WF_vars(StartTaskStep)
    /\ WF_vars(BroadcastGameStart)
    /\ \A c \in Conns : WF_vars(JoinResume(c))

FairSpec == Spec /\ Fairness

(***************************************************************************)
(* The tournament, hand by hand: a started tournament with k seated        *)
(* players whose handlers are in their message pump, and one spectator.    *)
(***************************************************************************)
SeatName(i) == << <<"a">>, <<"b">>, <<"c">>, <<"d">>, <<"e">> >>[i]

Roster(k) ==
    [i \in 1..k |->
        [ websocket |-> i, name |-> SeatName(i), seat_index |-> i - 1,
          stack |-> STARTING_STACK, is_eliminated |-> FALSE ]]

HandInitWith(sched) ==
    \E k \in MIN_PLAYERS..MAX_PLAYERS :
        /\ players = Roster(k)
        /\ cpc = [c \in Conns |->
                    IF c <= k THEN "pump"
                    ELSE IF c = MaxConns THEN "spect" ELSE "closed"]
        /\ spectators = {MaxConns}
        /\ started = TRUE
        /\ lobbyReady = (k < MAX_PLAYERS)
        /\ startTask = [kind |-> IF k < MAX_PLAYERS THEN "delayed" ELSE "start",
                        st |-> "running"]
        /\ tpc = "loop"
        /\ hand_number = 0
        /\ dealer_seat = 0
        /\ hand = NoHand
        /\ mailbox = [s \in Seats |-> <<>>]
        /\ out = [c \in Conns |->
                    IF c <= k \/ c = MaxConns
                    THEN build_game_start(Names(Roster(k)), Stacks(Roster(k)))
                    ELSE Blank]
        /\ gameStarts = 1
        /\ startReq = (k < MAX_PLAYERS)
        /\ received = <<>>
        /\ dealers = <<>>
        /\ schedule = sched
        /\ blinds = NoBlinds
        /\ send_lock = [c \in Conns |-> FreeLock]
        /\ send_tasks = NoSends
        /\ wire = [c \in Conns |-> NoWire]

\* the tournament has started with config.BLIND_SCHEDULE
HandInit == HandInitWith(BLIND_SCHEDULE)

\* the player of connection c has been prompted and not answered yet
InTurn(c) ==
    /\ tpc = "await"
    /\ cpc[c] = "pump"
    /\ SeatOf(c) = ActorSeat(hand)
    /\ received = <<>>

HandConnection ==
    \E c \in Conns :
        \/ \E m \in ClientActions : InTurn(c) /\ PlayerAction(c, m)
        \/ PlayerClose(c)

HandStep ==
    BeginHand \/ Prompt \/ SendRequest \/ Act \/ EndHand \/ EndTournament

HandNext == HandConnection \/ HandStep

HandSpec == HandInit /\ [][HandNext]_vars

\* the hands of a tournament whose clients send records that are not
\* actions, or close; every prompt ends by the timeout or the sentinel
PumpConnection == \E c \in Conns : PlayerBadRecord(c) \/ PlayerClose(c)

PumpNext == PumpConnection \/ HandStep

PumpSpec == HandInit /\ [][PumpNext]_vars

\* the event loop runs the tournament task whenever it can go on: its sends
\* complete and the wait for an answer ends by a record or by the timeout
HandFairSpec == HandSpec /\ WF_vars(HandStep)

(***************************************************************************)
(* Many hands: here a hand is one step, _run_hand as the tournament loop   *)
(* sees it (the dealer moves, the engine reports final stacks, busted      *)
(* players are eliminated); its records are left to HandSpec.              *)
(***************************************************************************)
MaxDeals == 7

PlayHand ==
    /\ tpc = "loop"
    /\ hand_number < MaxDeals
    /\ LET act == ActivePlayers(players)
           ds == RotateDealer(act, dealer_seat)
           h == [NoHand EXCEPT !.active = [i \in 1..Len(act) |->
                                             act[i].seat_index]]
       IN /\ LoopContinues(act)
          /\ dealer_seat' = ds
          /\ dealers' = Append(dealers,
                             [dealer |-> ds, active |-> SeatsOf(act)])
          /\ blinds' = GetBlinds(schedule, NextHandNumber(hand_number))
          /\ \E final \in Dist(Len(act), SumSeq(Stacks(act))) :
                players' = WriteBackStacks(players, h, final)
    /\ hand_number' = NextHandNumber(hand_number)
    /\ UNCHANGED << cpc, spectators, mailbox, out, tpc, hand, gameStarts,
                    startTask, received, schedule >>
    /\ UNCHANGED StartVars
    /\ UNCHANGED SendVars

DealerNext == PlayHand \/ EndTournament

DealerSpec == HandInit /\ [][DealerNext]_vars

(***************************************************************************)
(* PlayerInfo.send under its send_lock.  The hand loop's fan-out gathers   *)
(* one call of send per player and goes on when all have returned; the     *)
(* message pump of a connection awaits the send of its error reply.  A     *)
(* call takes the lock at once when it is free and nobody waits, else it   *)
(* queues; release wakes the first waiter, which takes the lock when it    *)
(* runs.  websocket.send on a closed connection raises and the exception   *)
(* is swallowed inside send.                                               *)
(***************************************************************************)
MaxSendTasks == 4

SendTask(id, c, m, by) ==
    [id |-> id, conn |-> c, msg |-> m, by |-> by, st |-> "new"]

\* a session whose sends never wait for each other
CanAcquireUnlocked(lock) == TRUE

\* asyncio.Lock.acquire: the fast path is open when the lock is not held
\* and no waiter is queued
CanAcquire(lock) == ~lock.locked /\ lock.waiters = <<>>

TaskSet(ts, t, st) == (ts \ {t}) \cup {[t EXCEPT !.st = st]}

OtherVars ==
    << players, spectators, hand_number, dealer_seat, hand, gameStarts,
       startTask, received, dealers, schedule, blinds >>

\* _broadcast_personalized: asyncio.gather of one send per player
GatherStart ==
    /\ tpc = "loop"
    /\ send_tasks.created + Len(players) <= MaxSendTasks
    /\ LET m == build_action_request(NoSeat, hand_number, <<>>)
           new == { SendTask(send_tasks.created + i, players[i].websocket,
                             m, "loop") : i \in 1..Len(players) }
       IN send_tasks' = [created |-> send_tasks.created + Len(players),
                         pending |-> send_tasks.pending \cup new]
    /\ tpc' = "gather"
    /\ UNCHANGED << cpc, mailbox, out, send_lock, wire >>
    /\ UNCHANGED OtherVars
    /\ UNCHANGED StartVars

\* the gather returns when every send it started has returned
GatherDone ==
    /\ tpc = "gather"
    /\ \A t \in send_tasks.pending : t.by # "loop"
    /\ tpc' = "loop"
    /\ UNCHANGED << cpc, mailbox, out >>
    /\ UNCHANGED SendVars
    /\ UNCHANGED OtherVars
    /\ UNCHANGED StartVars

\* message pump: a record that is not an action is answered by an error,
\* whose send the pump awaits
PumpReply(c) ==
    /\ cpc[c] = "pump"
    /\ send_tasks.created < MaxSendTasks
    /\ \E code \in {"BAD_JSON", "UNKNOWN_TYPE"} :
          send_tasks' =
             [created |-> send_tasks.created + 1,
              pending |-> send_tasks.pending \cup
                 { SendTask(send_tasks.created + 1, c,
                            build_error(code, ""), "pump") }]
    /\ cpc' = [cpc EXCEPT ![c] = "reply"]
    /\ UNCHANGED << tpc, mailbox, out, send_lock, wire >>
    /\ UNCHANGED OtherVars
    /\ UNCHANGED StartVars

\* the pump's send has returned; the pump reads the next record
PumpResume(c) ==
    /\ cpc[c] = "reply"
    /\ \A t \in send_tasks.pending : ~(t.by = "pump" /\ t.conn = c)
    /\ cpc' = [cpc EXCEPT ![c] = "pump"]
    /\ UNCHANGED << tpc, mailbox, out >>
    /\ UNCHANGED SendVars
    /\ UNCHANGED OtherVars
    /\ UNCHANGED StartVars

\* the connection closes, also while the pump awaits a send
SendClose(c) ==
    /\ cpc[c] \in {"pump", "reply"}
    /\ mailbox' = [mailbox EXCEPT ![SeatOf(c)] = PutNowait(@, Sentinel)]
    /\ cpc' = [cpc EXCEPT ![c] = "closed"]
    /\ UNCHANGED << tpc, out >>
    /\ UNCHANGED SendVars
    /\ UNCHANGED OtherVars
    /\ UNCHANGED StartVars

\* `async with self.send_lock`, entry
Acquire(t) ==
    /\ t \in send_tasks.pending
    /\ t.st = "new"
    /\ IF CanAcquire(send_lock[t.conn])
       THEN /\ send_lock' = [send_lock EXCEPT ![t.conn].locked = TRUE]
            /\ send_tasks' = [send_tasks EXCEPT
                                !.pending = TaskSet(@, t, "holding")]
            /\ wire' = [wire EXCEPT
                          ![t.conn].acquired = Append(@, t.id)]
       ELSE /\ send_lock' = [send_lock EXCEPT
                               ![t.conn].waiters = Append(@, t.id)]
            /\ send_tasks' = [send_tasks EXCEPT
                                !.pending = TaskSet(@, t, "waiting")]
            /\ UNCHANGED wire
    /\ UNCHANGED << cpc, tpc, mailbox, out >>
    /\ UNCHANGED OtherVars
    /\ UNCHANGED StartVars

\* a waiter that release has woken takes the lock
WakeUp(t) ==
    /\ t \in send_tasks.pending
    /\ t.st = "woken"
    /\ send_lock' = [send_lock EXCEPT
                       ![t.conn] = [locked |-> TRUE,
                                    waiters |-> SelectSeq(@.waiters,
                                                   LAMBDA id : id # t.id)]]
    /\ send_tasks' = [send_tasks EXCEPT !.pending = TaskSet(@, t, "holding")]
    /\ wire' = [wire EXCEPT ![t.conn].acquired = Append(@, t.id)]
    /\ UNCHANGED << cpc, tpc, mailbox, out >>
    /\ UNCHANGED OtherVars
    /\ UNCHANGED StartVars

\* websocket.send returns or raises, the lock is released and the first
\* waiter is woken; send returns
Transport(t) ==
    /\ t \in send_tasks.pending
    /\ t.st = "holding"
    /\ LET lock == send_lock[t.conn]
           rest == send_tasks.pending \ {t}
           first == { w \in rest : /\ w.conn = t.conn
                                   /\ lock.waiters # <<>>
                                   /\ w.id = Head(lock.waiters)
                                   /\ w.st = "waiting" }
       IN /\ send_lock' = [send_lock EXCEPT ![t.conn].locked = FALSE]
          /\ send_tasks' =
                [send_tasks EXCEPT
                   !.pending = (rest \ first)
                                  \cup { [w EXCEPT !.st = "woken"] :
                                         w \in first }]
    /\ IF cpc[t.conn] = "closed"
       THEN UNCHANGED << wire, out >>
       ELSE /\ wire' = [wire EXCEPT
                          ![t.conn].sent =
                             Append(@, [id |-> t.id, msg |-> t.msg])]
            /\ out' = Send(out, t.conn, t.msg)
    /\ UNCHANGED << cpc, tpc, mailbox >>
    /\ UNCHANGED OtherVars
    /\ UNCHANGED StartVars

SendNext ==
    \/ GatherStart
    \/ GatherDone
    \/ \E c \in Conns : PumpReply(c) \/ PumpResume(c) \/ SendClose(c)
    \/ \E t \in send_tasks.pending : Acquire(t) \/ WakeUp(t) \/ Transport(t)

SendSpec == HandInit /\ [][SendNext]_vars

(***************************************************************************)
(* _get_blinds over every schedule: the loop of _run_tournament counts the *)
(* hands and each hand takes its blinds from the schedule.  max() of an    *)
(* empty sequence raises ValueError, which ends the tournament task.       *)
(***************************************************************************)
MaxKey == 3
MaxBlind == 2
MaxBlindHands == 4

\* the blind levels a schedule may hold: the big blind is twice the small
Levels == { <<sb, 2 * sb>> : sb \in 1..MaxBlind }

\* every schedule with thresholds up to MaxKey
Schedules == UNION { [K -> Levels] : K \in SUBSET (0..MaxKey) }

BlindInit == \E sched \in Schedules : HandInitWith(sched)

BlindHand ==
    /\ tpc = "loop"
    /\ hand_number < MaxBlindHands
    /\ hand_number' = NextHandNumber(hand_number)
    /\ IF ApplicableKeys(schedule, hand_number') # {}
       THEN /\ blinds' = GetBlinds(schedule, hand_number')
            /\ UNCHANGED tpc
       ELSE /\ tpc' = "crashed"
            /\ UNCHANGED blinds
    /\ UNCHANGED << cpc, players, spectators, mailbox, out, hand,
                    dealer_seat, gameStarts, startTask, received, dealers,
                    schedule >>
    /\ UNCHANGED StartVars
    /\ UNCHANGED SendVars

BlindNext == BlindHand

BlindSpec == BlindInit /\ [][BlindNext]_vars

(***************************************************************************)
(* From the lobby to the end of the tournament: the players are seated by  *)
(* their joins and the hands run step by step.  Here the clients send no   *)
(* record after their join, so every prompt ends by its timeout.           *)
(***************************************************************************)
SeatConnection ==
    \E c \in Conns :
        \/ Spectate(c)
        \/ \E raw \in { <<"a">>, <<"b">>, <<"c">> } : Join(c, raw)
        \/ JoinResume(c)
        \/ SpectatorStart(c)

SeatNext == SeatConnection \/ StartTaskStep \/ BroadcastGameStart \/ HandStep

SeatSpec == Init /\ [][SeatNext]_vars

(***************************************************************************)
(* One hand, turn by turn, with a next actor that sends what it likes when *)
(* it likes: before the drain of its prompt, between the drain and the     *)
(* action_request, and after the request, several records per prompt.  A   *)
(* record of a player who is not next to act waits in that player's        *)
(* mailbox for the drain of that player's own prompt, which is the case of *)
(* the next actor sending before the drain.  The sends of the request are  *)
(* tasks that asyncio.gather schedules behind what is already due to run,  *)
(* a message pump with a record read from its socket included; tpc =       *)
(* "sending" stands for the time until the request has gone out.  Any      *)
(* connection may close.                                                   *)
(***************************************************************************)
MaxReceived == 2

\* ClientActions and raises at and above the upper end of the range
TurnActions ==
    ClientActions \cup
        { ActionRec("raise", RaiseMax), ActionRec("raise", RaiseMax + 1) }

TurnConnection ==
    \E c \in Conns :
        \/ \E m \in TurnActions :
              /\ cpc[c] = "pump" /\ SeatOf(c) = ActorSeat(hand)
              /\ AfterDrain(c) => Len(received) < MaxReceived
              /\ PlayerAction(c, m)
        \/ PlayerClose(c)

TurnStep ==
    \/ hand_number = 0 /\ BeginHand
    \/ Prompt
    \/ SendRequest
    \/ Act
    \/ EndHand
    \/ EndTournament

TurnNext == TurnConnection \/ TurnStep

TurnSpec == HandInit /\ [][TurnNext]_vars


(***************************************************************************)
(* Properties.                                                             *)
(***************************************************************************)
ErrorTo(c, code) == out[c].type = "error" /\ out[c].code = code

RealCards(cards) == { cards[i] : i \in 1..Len(cards) } \ {Hidden}

HandRecords == {"hand_start", "action_request", "action_result"}

\* C1: game_start is broadcast at most once, and exactly once as soon as the
\* tournament has started and its broadcast step has run; every later call
\* of _start_tournament returns without broadcasting.
C1_StartOnce ==
    /\ gameStarts <= 1
    /\ started <=> tpc # "idle"
    /\ tpc \notin {"idle", "game_start"} => gameStarts = 1

\* a second start task has been created after game_start went out
C1_SecondCaller ==
    /\ gameStarts = 1
    /\ startTask.kind = "start"
    /\ startTask.st = "pending"

\* C2: at every hand boundary (after game_start and after each write-back of
\* the final stacks) the stacks of the roster sum to players * starting stack.
C2_ChipConservation ==
    tpc \in {"loop", "done"} =>
        SumSeq(Stacks(players)) = Len(players) * STARTING_STACK

\* chips have moved: a hand was played and a player busted
C2_AfterBust ==
    /\ tpc = "loop"
    /\ hand_number >= 1
    /\ \E i \in 1..Len(players) : players[i].stack = 0

\* C3: in a hand_start, action_request or action_result sent to a player the
\* only real cards are the recipient's own: hand_start carries the cards
\* dealt to the recipient, and in game_state every other seat shows only
\* placeholders with hole_cards_known false.
C3_OwnCardsOnly ==
    \A c \in PlayerConns(players) :
        LET m == out[c]
            seat == PlayerOf(players, c).seat_index
        IN m.type \in HandRecords =>
              /\ \A i \in 1..Len(m.players) :
                    m.players[i].seat # seat =>
                        /\ RealCards(m.players[i].hole_cards) = {}
                        /\ ~m.players[i].hole_cards_known
              /\ (m.type = "hand_start" /\ hand # NoHand
                     /\ m.hand_number = hand_number)
                    => m.hole_cards = hand.dealt[SeatToPk(hand, seat)]
              /\ (m.type # "hand_start" /\ hand # NoHand
                     /\ m.hand_number = hand_number)
                    => \A i \in 1..Len(m.players) :
                          RealCards(m.players[i].hole_cards)
                              \subseteq RealCards(hand.dealt[SeatToPk(hand, seat)])

\* after the final action of a hand that went to showdown, a player's
\* action_result shows the own cards and placeholders for an opponent who
\* still holds cards
C3_AfterFinalAction ==
    \E c \in PlayerConns(players) :
        /\ hand # NoHand
        /\ hand.over
        /\ out[c].type = "action_result"
        /\ \E i, j \in 1..Len(out[c].players) :
              /\ out[c].players[i].seat = PlayerOf(players, c).seat_index
              /\ Cardinality(RealCards(out[c].players[i].hole_cards)) = 2
              /\ j # i
              /\ out[c].players[j].hole_cards = << Hidden, Hidden >>

\* C4 as claimed: before the hand is over, no record of the hand sent to a
\* spectator carries a real hole card.
C4_SpectatorBlindBeforeShowdown ==
    \A c \in spectators :
        (out[c].type \in HandRecords /\ hand # NoHand /\ ~hand.over) =>
            /\ out[c].hole_cards = <<>>
            /\ \A i \in 1..Len(out[c].players) :
                  RealCards(out[c].players[i].hole_cards) = {}

\* C4 amended: a hand_start sent to a spectator carries no hole cards; every
\* action_request and action_result sent to a spectator, from the first
\* prompt of the hand on, shows for every seat that still holds cards the
\* two cards dealt to it, with hole_cards_known true.
C4_SpectatorSeesAll ==
    \A c \in spectators :
        LET m == out[c] IN
        /\ m.type = "hand_start" => m.hole_cards = <<>> /\ m.players = <<>>
        /\ (m.type \in {"action_request", "action_result"} /\ hand # NoHand
               /\ m.hand_number = hand_number) =>
              /\ Len(m.players) = Len(hand.active)
              /\ \A i \in 1..Len(m.players) :
                    /\ m.players[i].hole_cards_known
                    /\ m.players[i].hole_cards =
                          IF hand.hole[i - 1] # <<>> THEN hand.dealt[i - 1]
                          ELSE <<>>

\* a spectator holds an action_request of a hand in its first betting round
\* that shows two real cards for every seat
C4_SpectatorSeesPreflop ==
    \E c \in spectators :
        /\ out[c].type = "action_request"
        /\ hand # NoHand
        /\ ~hand.over
        /\ hand.nacts = 0
        /\ \A i \in 1..Len(out[c].players) :
              Cardinality(RealCards(out[c].players[i].hole_cards)) = 2

\* C5: once min_players are registered the tournament eventually starts,
\* without a start record and without further joins.
C5_GraceStart == (Len(players) >= MIN_PLAYERS) ~> (gameStarts >= 1)

\* C6: once max_players are registered the tournament eventually starts
\* without any further event.
C6_FullStart == (Len(players) = MAX_PLAYERS) ~> (gameStarts >= 1)

\* C7: a start record received while the tournament has not started and at
\* least min_players are registered leads to game_start, whatever the state
\* of the start task; a start record received after the start changes
\* nothing.
C7_ForceStart ==
    /\ startReq ~> (gameStarts >= 1)
    /\ [][ (started /\ \E c \in Conns : SpectatorStart(c))
              => UNCHANGED vars ]_vars

\* the start record woke the pending _delayed_start, which started the
\* tournament
C7_WokenDelayedStart ==
    /\ startReq
    /\ startTask.kind = "delayed"
    /\ gameStarts = 1

\* C8 as claimed: every join received after the start is rejected with
\* TOURNAMENT_STARTED and leaves the roster unchanged.
C8_JoinAfterStartAlwaysStarted ==
    [][ \A c \in Conns : \A raw \in RawNames :
           (started /\ Join(c, raw)) =>
               /\ ErrorTo(c, "TOURNAMENT_STARTED")'
               /\ players' = players ]_vars

\* C8 amended: every join received after the start is rejected, registers
\* no player and leaves the roster unchanged; the code is TOURNAMENT_STARTED
\* when the trimmed name has 1 to 32 characters and BAD_NAME otherwise.
C8_JoinAfterStart ==
    [][ \A c \in Conns : \A raw \in RawNames :
           (started /\ Join(c, raw)) =>
               /\ players' = players
               /\ cpc'[c] = "closed"
               /\ IF BadName(Strip(raw)) THEN ErrorTo(c, "BAD_NAME")'
                  ELSE ErrorTo(c, "TOURNAMENT_STARTED")' ]_vars

\* a join with a well-formed name was refused because the tournament runs
C8_RefusedStarted ==
    \E c \in Conns :
        started /\ cpc[c] = "closed" /\ ErrorTo(c, "TOURNAMENT_STARTED")

\* C9 as claimed: the roster never exceeds max_players, and a join arriving
\* at a full table is rejected with TOURNAMENT_FULL, roster unchanged.
C9_FullAlwaysFull ==
    /\ [](Len(players) <= MAX_PLAYERS)
    /\ [][ \A c \in Conns : \A raw \in RawNames :
              (Len(players) >= MAX_PLAYERS /\ Join(c, raw)) =>
                  /\ ErrorTo(c, "TOURNAMENT_FULL")'
                  /\ players' = players ]_vars

\* C9 amended: the roster never exceeds max_players; a join arriving at a
\* full table is rejected and leaves the roster unchanged, with
\* TOURNAMENT_FULL when the tournament has not started and the trimmed name
\* has 1 to 32 characters.
C9_TableFull ==
    /\ [](Len(players) <= MAX_PLAYERS)
    /\ [][ \A c \in Conns : \A raw \in RawNames :
              (Len(players) >= MAX_PLAYERS /\ Join(c, raw)) =>
                  /\ players' = players
                  /\ cpc'[c] = "closed"
                  /\ (~started /\ ~BadName(Strip(raw)))
                        => ErrorTo(c, "TOURNAMENT_FULL")' ]_vars

\* a join was refused at a full table
C9_RefusedFull ==
    \E c \in Conns :
        /\ Len(players) = MAX_PLAYERS
        /\ cpc[c] = "closed"
        /\ ErrorTo(c, "TOURNAMENT_FULL")

NameTaken(name) == \E i \in 1..Len(players) : players[i].name = name

\* C10 as claimed: names are unique, and a join whose trimmed name is taken
\* is rejected with BAD_NAME, roster unchanged.
C10_DuplicateAlwaysBadName ==
    /\ [](\A i, j \in 1..Len(players) :
             players[i].name = players[j].name => i = j)
    /\ [][ \A c \in Conns : \A raw \in RawNames :
              (NameTaken(Strip(raw)) /\ Join(c, raw)) =>
                  /\ ErrorTo(c, "BAD_NAME")'
                  /\ players' = players ]_vars

\* C10 amended: names are unique; a join whose trimmed name is taken is
\* rejected and leaves the roster unchanged, with BAD_NAME when the
\* tournament has not started and the table is not full.
C10_UniqueNames ==
    /\ [](\A i, j \in 1..Len(players) :
             players[i].name = players[j].name => i = j)
    /\ [][ \A c \in Conns : \A raw \in RawNames :
              (NameTaken(Strip(raw)) /\ Join(c, raw)) =>
                  /\ players' = players
                  /\ cpc'[c] = "closed"
                  /\ (~started /\ Len(players) < MAX_PLAYERS)
                        => ErrorTo(c, "BAD_NAME")' ]_vars

\* a join that repeated a registered name, written with surrounding
\* whitespace, was refused in the open lobby
C10_RefusedDuplicate ==
    \E c \in Conns :
        /\ ~started
        /\ Len(players) < MAX_PLAYERS
        /\ players # <<>>
        /\ cpc[c] = "closed"
        /\ ErrorTo(c, "BAD_NAME")
        /\ out[c].message = RejectText("BAD_NAME")

(***************************************************************************)
(* Seats.                                                                  *)
(***************************************************************************)
\* the name at position i is the name of the player whose seat_index is i-1
NamesBySeat(names) ==
    /\ Len(names) = Len(players)
    /\ \A i \in 1..Len(players) :
          \E j \in 1..Len(players) :
             players[j].seat_index = i - 1 /\ names[i] = players[j].name

SeatedRecords == {"game_start", "hand_end", "game_end"}

Recipients ==
    { c \in Conns :
        /\ cpc[c] # "closed"
        /\ \/ c \in spectators
           \/ \E i \in 1..Len(hand.active) :
                 players[hand.active[i] + 1].websocket = c }

ActorConn == players[ActorSeat(hand) + 1].websocket

\* the hand loop stops waiting for the answer to its action_request
Answered == tpc = "await" /\ tpc' # "await"

\* the answer is applied and the hand goes on to its next prompt or its end
Proceeds == tpc' = "prompt" /\ hand'.nacts = hand.nacts + 1

\* every recipient is sent the action_result of the prompted actor
ResultSent(action_type, amount, timed_out) ==
    \A c \in Recipients :
        /\ out'[c].type = "action_result"
        /\ out'[c].actor_seat = ActorSeat(hand)
        /\ out'[c].action = action_type
        /\ out'[c].amount = amount
        /\ out'[c].timed_out = timed_out

\* C12: every action_request is answered by at most one inbound record, by
\* exactly one action applied to the engine and by one action_result with
\* the same actor_seat, before any further action_request or hand_end.
C12_OneResultPerRequest ==
    [][ Answered =>
          /\ Len(mailbox[ActorSeat(hand)]) <= 1
          /\ mailbox'[ActorSeat(hand)] = <<>>
          /\ Proceeds
          /\ hand'.applied # NoHand.applied
          /\ \A c \in Recipients :
                /\ out'[c].type = "action_result"
                /\ out'[c].actor_seat = ActorSeat(hand) ]_vars
\* every record the actor has sent since the drain came after its request
AllInTurn == \A i \in 1..Len(received) : received[i].turn

C14_OutOfTurnDiscarded ==
    [][ /\ Answered
        /\ mailbox[ActorSeat(hand)] # <<>>
        /\ Head(mailbox[ActorSeat(hand)]) # Sentinel
        => received # <<>> /\ received[1].turn ]_vars
\* C15: when the deadline of an action_request expires with no record in
\* the actor's mailbox, a fold is applied for the actor, an action_result
\* with type fold, no amount and timed_out true is broadcast, and the hand
\* continues.
C15_TimeoutFolds ==
    [][ Answered /\ mailbox[ActorSeat(hand)] = <<>>
        => /\ Proceeds
           /\ hand'.applied = [type |-> "fold", amount |-> NoAmount]
           /\ ~hand'.statuses[hand.actor]
           /\ ResultSent("fold", NoAmount, TRUE) ]_vars

\* C16: when the actor's connection closes while the hand loop waits on the
\* actor's empty mailbox, the sentinel is what the wait returns, and the
\* actor is folded with an action_result of type fold and timed_out true.
C16_CloseWakesAwait ==
    [][ /\ ( /\ tpc = "await"
              /\ mailbox[ActorSeat(hand)] = <<>>
              /\ cpc[ActorConn] # "closed" /\ cpc'[ActorConn] = "closed"
              => mailbox'[ActorSeat(hand)] = <<Sentinel>> )
        /\ ( Answered /\ mailbox[ActorSeat(hand)] = <<Sentinel>>
              => /\ Proceeds
                 /\ hand'.applied.type = "fold"
                 /\ ResultSent("fold", NoAmount, TRUE) ) ]_vars

\* C17: an action_request whose actor's connection had closed before it was
\* issued (the mailbox can then hold no action record of this turn) is
\* answered by a fold for the actor with timed_out true, in every hand.
C17_ClosedPlayerFolds ==
    [][ /\ Answered
        /\ cpc[ActorConn] = "closed"
        /\ received = <<>>
        => /\ Proceeds
           /\ hand'.applied.type = "fold"
           /\ ResultSent("fold", NoAmount, TRUE) ]_vars

\* the record fails the validation of _get_action against valid
BadAction(msg, valid) ==
    /\ msg # Sentinel
    /\ \/ msg.kind = "malformed"
       \/ msg.type \notin valid
       \/ msg.type = "raise" /\ msg.amount = NoAmount

\* C18: when the record consumed as the answer is malformed, has a type
\* that is not among the valid types of the prompt, or is a raise without
\* amount, a fold is applied for the actor and the hand proceeds (the
\* BAD_ACTION error to the actor precedes the action_result).
C18_BadActionFolds ==
    [][ /\ Answered
        /\ mailbox[ActorSeat(hand)] # <<>>
        /\ BadAction(Head(mailbox[ActorSeat(hand)]), hand.valid)
        => /\ Proceeds
           /\ hand'.applied.type = "fold"
           /\ \A c \in Recipients :
                 out'[c].type = "action_result" /\ out'[c].action = "fold"
       ]_vars
\* max(min_amount, min(max_amount, amount)) of the prompt's raise entry
Clamped(amount) ==
    IF amount < RaiseMin THEN RaiseMin
    ELSE IF amount > RaiseMax THEN RaiseMax
    ELSE amount

\* C19: a raise with an integer amount, consumed at a prompt that offers a
\* raise, is not folded: the amount applied to the engine and the amount of
\* the action_result are the amount clamped to [min_amount, max_amount]
\* (unchanged when inside the range), and timed_out is false.
C19_RaiseClamped ==
    [][ /\ Answered
        /\ mailbox[ActorSeat(hand)] # <<>>
        /\ Head(mailbox[ActorSeat(hand)]).kind = "action"
        /\ Head(mailbox[ActorSeat(hand)]).type = "raise"
        /\ Head(mailbox[ActorSeat(hand)]).amount # NoAmount
        /\ "raise" \in hand.valid
        => LET amount == Head(mailbox[ActorSeat(hand)]).amount IN
              /\ Proceeds
              /\ hand'.applied = [type |-> "raise", amount |-> Clamped(amount)]
              /\ hand'.statuses[hand.actor]
              /\ ResultSent("raise", Clamped(amount), FALSE) ]_vars

\* a raise above the range was the answer: the engine got RaiseMax and the
\* action_result reports RaiseMax with timed_out false
C19_RaiseAboveMaxApplied ==
    /\ tpc = "prompt"
    /\ received = << [rec |-> ActionRec("raise", RaiseMax + 1), turn |-> TRUE] >>
    /\ hand.applied = [type |-> "raise", amount |-> RaiseMax]
    /\ \E c \in Conns :
          /\ out[c].type = "action_result"
          /\ out[c].action = "raise"
          /\ out[c].amount = RaiseMax
          /\ ~out[c].timed_out

\* C20: the timed_out of an action_result is true only when the deadline
\* expired with no record or the disconnect sentinel was consumed; a fold
\* that follows a BAD_ACTION is reported with timed_out false.
C20_TimedOutMeansNoAnswer ==
    [][ Answered /\ Proceeds
        => \A c \in Recipients :
              out'[c].timed_out
                 = ( \/ mailbox[ActorSeat(hand)] = <<>>
                     \/ Head(mailbox[ActorSeat(hand)]) = Sentinel ) ]_vars
(***************************************************************************)
(* Hands.                                                                  *)
(***************************************************************************)
\* _run_hand leaves the action loop and sends the hand_end of the hand
HandEnds == tpc = "prompt" /\ tpc' = "loop"

\* the connections that are sent a record of type t by this step
SentNow(t) == { c \in Conns : out'[c] # out[c] /\ out'[c].type = t }

HandBegins == tpc = "loop" /\ tpc' = "prompt"

SetMin(S) == CHOOSE x \in S : \A y \in S : x <= y

\* the next-higher seat of seats after seat ds, the lowest if none is higher
NextSeatAfter(seats, ds) ==
    IF \E s \in seats : s > ds
    THEN SetMin({ s \in seats : s > ds })
    ELSE SetMin(seats)

\* C22: in every hand after the first the dealer seat is the next-higher
\* active seat after the dealer seat of the previous hand, wrapping to the
\* lowest active seat, also when the previous dealer has just been
\* eliminated.
C22_DealerMovesToNextActive ==
    [][ HandBegins /\ hand_number >= 1
        => dealer_seat'
             = NextSeatAfter(SeatsOf(ActivePlayers(players)), dealer_seat)
      ]_vars
\* how often seat s was the dealer in the hands i..j
DealsOf(s, i, j) == Cardinality({ m \in i..j : dealers[m].dealer = s })

\* C23: over any N consecutive hands with the same set of k active seats,
\* every active seat is the dealer floor(N/k) or ceil(N/k) times.
C23_DealerShare ==
    \A i, j \in 1..Len(dealers) :
        (i <= j /\ \A m \in i..j : dealers[m].active = dealers[i].active)
        => LET k == Cardinality(dealers[i].active)
               N == j - i + 1
           IN \A s \in dealers[i].active :
                 DealsOf(s, i, j) \in { N \div k, (N + k - 1) \div k }

\* after a first hand of more than two players, two players have played all
\* the later hands, one more hand than twice round the table
C23_LongHeadsUp ==
    /\ Len(dealers) >= 6
    /\ Cardinality(dealers[1].active) > 2
    /\ \A m \in 2..Len(dealers) :
          /\ dealers[m].active = dealers[2].active
          /\ Cardinality(dealers[m].active) = 2
C25_GameEndOnce ==
    [][ /\ SentNow("game_end") # {} => tpc = "loop" /\ tpc' = "done"
        /\ tpc = "done" => /\ tpc' = "done"
                           /\ SentNow("game_end") = {}
                           /\ SentNow("hand_start") = {}
        /\ \A c \in SentNow("game_end") :
              LET act == ActivePlayers(players) IN
              /\ Len(act) = 1
              /\ out'[c].winner = act[1].name
              /\ out'[c].winner_seat = act[1].seat_index
              /\ out'[c].hand_number = hand_number
              /\ hand_number = Len(dealers)
              /\ hand = NoHand ]_vars

\* the tournament is over after two hands and the last seat has won it
C25_LastSeatWins ==
    /\ tpc = "done"
    /\ \E c \in Conns :
          /\ out[c].type = "game_end"
          /\ out[c].hand_number = 2
          /\ out[c].winner_seat = Len(players) - 1
          /\ out[c].winner = players[Len(players)].name
SeqToSet(q) == { q[j] : j \in 1..Len(q) }

IndexOfSeat(a, seat) == (CHOOSE i \in 1..Len(a) : a[i] = seat) - 1

\* the seat that posts the small blind among the seats a with dealer index d
SmallBlindOf(a, d) ==
    a[(IF Len(a) >= 3 THEN (d + 1) % Len(a) ELSE d) + 1]

\* the seat that posts the big blind among the seats a with dealer index d
BigBlindOf(a, d) ==
    a[(IF Len(a) >= 3 THEN (d + 2) % Len(a) ELSE 1 - d) + 1]

\* the records that carry a game state
StateRecords == SentNow("action_request") \cup SentNow("action_result")

\* C27: in a hand of n active players with dealer index d the small blind
\* is active[(d+1) mod n] and the big blind active[(d+2) mod n] when
\* n >= 3, and the dealer and the other player when n = 2; the two seats
\* differ; hand_start announces them, the engine keeps them for the whole
\* hand, and every game state sent during the hand carries the same two
\* seats.
C27_BlindSeats ==
    /\ [][ HandBegins =>
             LET a == hand'.active
                 d == IndexOfSeat(a, dealer_seat')
                 sb == SmallBlindOf(a, d)
                 bb == BigBlindOf(a, d)
             IN /\ Len(a) >= 2
                /\ sb # bb
                /\ a[hand'.sb_pk + 1] = sb
                /\ a[hand'.bb_pk + 1] = bb
                /\ SentNow("hand_start") # {}
                /\ \A c \in SentNow("hand_start") :
                      /\ out'[c].small_blind_seat = sb
                      /\ out'[c].big_blind_seat = bb ]_vars
    /\ [][ (hand # NoHand /\ hand' # NoHand /\ ~HandBegins) =>
             /\ hand'.active = hand.active
             /\ hand'.sb_pk = hand.sb_pk
             /\ hand'.bb_pk = hand.bb_pk ]_vars
    /\ [][ \A c \in StateRecords :
             /\ hand' # NoHand
             /\ out'[c].small_blind_seat = hand'.active[hand'.sb_pk + 1]
             /\ out'[c].big_blind_seat = hand'.active[hand'.bb_pk + 1] ]_vars

\* a heads-up hand after an elimination: a game state names the dealer as
\* the small blind and the other player as the big blind
C27_HeadsUpDealerPostsSmall ==
    /\ hand # NoHand
    /\ Len(hand.active) = 2
    /\ hand_number = 2
    /\ \E c \in Conns :
          /\ out[c].type = "action_result"
          /\ out[c].hand_number = hand_number
          /\ out[c].small_blind_seat = dealer_seat
          /\ out[c].big_blind_seat # dealer_seat

\* the schedule's blinds do not go down as the threshold goes up
Increasing(sched) ==
    \A j, k \in DOMAIN sched :
        j < k => sched[j][1] <= sched[k][1] /\ sched[j][2] <= sched[k][2]

\* C28: the blinds taken for hand H are the schedule entry of the greatest
\* threshold key that is <= H, for every hand number H >= 1 and every
\* schedule that holds a key <= H; when the schedule's values increase with
\* the key, the blinds of a hand are never lower than those of the hand
\* before.
C28_BlindsFollowSchedule ==
    /\ [][ (hand_number' # hand_number
            /\ \E k \in DOMAIN schedule : k <= hand_number') =>
             /\ hand_number' >= 1
             /\ tpc' # "crashed"
             /\ \E k \in DOMAIN schedule :
                   /\ k <= hand_number'
                   /\ \A j \in DOMAIN schedule : j <= hand_number' => j <= k
                   /\ blinds' = schedule[k] ]_vars
    /\ [][ (hand_number' = hand_number + 1 /\ blinds # NoBlinds
            /\ Increasing(schedule)) =>
             /\ blinds'[1] >= blinds[1]
             /\ blinds'[2] >= blinds[2] ]_vars

\* a hand past the second threshold of a schedule and before its third has
\* taken the blinds of the second, which differ from those of the first
C28_SecondLevelReached ==
    /\ tpc = "loop"
    /\ \E i, j, k \in DOMAIN schedule :
          /\ i < j /\ j < hand_number /\ hand_number < k
          /\ schedule[i] # schedule[j]
          /\ blinds = schedule[j]


(***************************************************************************)
(* Mailbox                                                                 *)
(***************************************************************************)
\* the mailbox of seat s holds the disconnect sentinel
HoldsSentinel(mb, s) == \E i \in 1..Len(mb[s]) : mb[s][i] = Sentinel

\* connection c is a registered player's and closes in this step
ClosesNow(c) == cpc[c] = "pump" /\ cpc'[c] = "closed"

\* C29: when a registered player's connection closes the sentinel is placed
\* in the player's mailbox whatever the mailbox holds; it stays there until
\* the hand loop takes it as the answer to a prompt for that player; so a
\* prompt that waits for a player whose connection is closed finds the
\* sentinel in the mailbox and does not wait for the timeout.
C29_SentinelKept ==
    /\ [][ \A c \in Conns :
             ClosesNow(c) => HoldsSentinel(mailbox', SeatOf(c)) ]_vars
    /\ [][ \A s \in Seats :
             (HoldsSentinel(mailbox, s) /\ ~HoldsSentinel(mailbox', s)) =>
                /\ tpc = "await"
                /\ ActorSeat(hand) = s ]_vars
    /\ [](\A c \in Conns :
             (/\ cpc[c] = "closed"
              /\ \E i \in 1..Len(players) : players[i].websocket = c
              /\ tpc = "await"
              /\ SeatOf(c) = ActorSeat(hand))
             => HoldsSentinel(mailbox, SeatOf(c)))


\* the pump takes an action record from the actor while the actor's mailbox
\* is full
EnqueueOnFull ==
    /\ Len(received') = Len(received) + 1
    /\ mailbox[ActorSeat(hand)] # <<>>

\* C30: a mailbox never holds more than one entry; an action record that
\* arrives while the mailbox is full is discarded: the mailbox keeps its
\* content, the pump of the connection goes on, and no record is sent back.
C30_MailboxCapacity ==
    /\ [](\A s \in Seats : Len(mailbox[s]) <= 1)
    /\ [][ EnqueueOnFull =>
             /\ mailbox' = mailbox
             /\ out' = out
             /\ cpc' = cpc ]_vars

\* the prompted actor has sent two different records in turn; the mailbox
\* holds the first and the actor's last record is still the action_request
C30_SecondSendOnFull ==
    /\ tpc = "await"
    /\ Len(received) = 2
    /\ received[1].turn /\ received[2].turn
    /\ received[1].rec # received[2].rec
    /\ mailbox[ActorSeat(hand)] = <<received[1].rec>>
    /\ out[ActorConn].type = "action_request"


(***************************************************************************)
(* Prompts                                                                 *)
(***************************************************************************)
\* the hand loop drains the actor's mailbox for a new prompt
Drains == tpc = "prompt" /\ tpc' = "sending"

\* the action_request of the prompt goes out
Requests == tpc = "sending" /\ tpc' = "await"

\* the first record the actor sent since the drain came after the request
FirstInTurn == received # <<>> /\ received[1].turn

\* C31: at every prompt the drain of the actor's mailbox is complete before
\* the action_request goes to any recipient, and no mailbox is emptied
\* between that send and the end of the wait except by the hand loop taking
\* the answer; so a reply that the actor sends after the action_request,
\* into the empty mailbox, stays in the mailbox and is the record the hand
\* loop consumes as the answer.
C31_ReplySurvives ==
    /\ [][ Drains => /\ mailbox'[ActorSeat(hand)] = <<>>
                     /\ SentNow("action_request") = {} ]_vars
    /\ [][ SentNow("action_request") # {} =>
             Requests /\ mailbox' = mailbox ]_vars
    /\ [][ \A s \in Seats :
             (mailbox[s] # <<>> /\ mailbox'[s] = <<>>) =>
                Drains \/ (Answered /\ s = ActorSeat(hand)) ]_vars
    /\ [](tpc = "await" /\ FirstInTurn
            => mailbox[ActorSeat(hand)] = <<received[1].rec>>)
    /\ [][ Answered /\ FirstInTurn =>
             /\ mailbox'[ActorSeat(hand)] = <<>>
             /\ Proceeds =>
                   hand'.applied.type
                      = GetAction(received[1].rec, hand.valid).type ]_vars

\* at the second prompt of a hand the actor sent one raise after the
\* action_request; the hand loop took it and the raise was applied
C31_InTurnRaiseApplied ==
    /\ tpc = "prompt"
    /\ hand.nacts = 2
    /\ received = << [rec |-> ActionRec("raise", RaiseMax), turn |-> TRUE] >>
    /\ hand.applied.type = "raise"
    /\ \E c \in Conns : out[c].type = "action_result" /\ out[c].action = "raise"


\* what _get_action returns for the prompt that is being waited on
AnswerOf ==
    IF mailbox[ActorSeat(hand)] = <<>> THEN TimedOut
    ELSE GetAction(Head(mailbox[ActorSeat(hand)]), hand.valid)

\* an action type is legal for the valid types captured at the prompt;
\* check and call stand for each other
Legal(action_type, valid) ==
    \/ action_type \in valid
    \/ action_type \in {"check", "call"} /\ valid \cap {"check", "call"} # {}

\* C32: every action the hand loop hands to the rules engine is legal for
\* the prompt: its type is among the valid types captured before the
\* prompt (check and call being interchangeable), the fold substituted on
\* timeout, disconnect and BAD_ACTION included, and the engine applies it.
C32_AppliedActionLegal ==
    [][ Answered => /\ Legal(AnswerOf.type, hand.valid)
                    /\ tpc' # "crashed"
                    /\ Proceeds ]_vars


\* some connection's last record is of type t for hand k
LastRecord(t, k) ==
    \E c \in Conns : out[c].type = t /\ out[c].hand_number = k

\* C33: every hand that has broadcast its hand_start eventually broadcasts
\* the hand_end of the same hand number, also when players do not answer or
\* are disconnected; and a started tournament that is between hands
\* eventually broadcasts game_end or starts another hand.
C33_HandsEnd ==
    /\ \A k \in 1..MaxHands :
          (hand # NoHand /\ hand_number = k) ~> LastRecord("hand_end", k)
    /\ (tpc = "loop" /\ hand_number < MaxHands)
          ~> (\E c \in Conns : out[c].type \in {"game_end", "hand_start"})


\* C34: every player who took part in a hand and whose connection is open
\* is sent the hand_end of that hand, a player whose stack reached 0 in the
\* hand and who is listed in eliminated_seats included.
C34_HandEndToAll ==
    [][ HandEnds =>
          \A i \in 1..Len(hand.active) :
             LET c == players[hand.active[i] + 1].websocket IN
                cpc[c] # "closed" =>
                   /\ out'[c].type = "hand_end"
                   /\ out'[c].hand_number = hand_number ]_vars


(***************************************************************************)
(* Sessions                                                                *)
(***************************************************************************)
\* the sends to connection c that hold the lock of its session
InFlight(c) == { t \in send_tasks.pending : t.conn = c /\ t.st = "holding" }

\* the place of send id in the order in which the sends to c took the lock
AcquiredAt(c, id) ==
    CHOOSE i \in 1..Len(wire[c].acquired) : wire[c].acquired[i] = id

\* C35: at most one transport send of a session is in flight at any time;
\* the records reach the transport in the order in which their sends took
\* the lock of the session, also when a fan-out of the hand loop and an
\* error reply of the pump send to the same session at once; and a send on
\* a closed connection returns without a record on the transport and
\* without stopping the hand loop.
C35_SessionFifo ==
    /\ [](\A c \in Conns : Cardinality(InFlight(c)) <= 1)
    /\ [](\A c \in Conns :
            \A i, j \in 1..Len(wire[c].sent) :
               /\ \E k \in 1..Len(wire[c].acquired) :
                     wire[c].acquired[k] = wire[c].sent[i].id
               /\ i < j => AcquiredAt(c, wire[c].sent[i].id)
                              < AcquiredAt(c, wire[c].sent[j].id))
    /\ [][ \A t \in send_tasks.pending :
             (t.st = "holding" /\ t \notin send_tasks'.pending
              /\ cpc[t.conn] = "closed") =>
                /\ wire'[t.conn].sent = wire[t.conn].sent
                /\ tpc' = tpc
                /\ \A w \in send_tasks'.pending : w.id # t.id ]_vars
    /\ [](tpc \in {"loop", "gather"})

\* the pump's error reply took the lock of a session before the fan-out's
\* record for the same session, which waited; both reached the transport,
\* the error first
C35_ReplyBeforeFanOut ==
    \E c \in Conns :
        /\ Len(wire[c].sent) = 2
        /\ wire[c].sent[1].msg.type = "error"
        /\ wire[c].sent[2].msg.type = "action_request"
        /\ wire[c].sent[1].id > wire[c].sent[2].id


(***************************************************************************)
(* Order of the records of a hand                                          *)
(***************************************************************************)
\* connection c is sent a record of type t by this step
Gets(c, t) == out'[c] # out[c] /\ out'[c].type = t

PumpError(c) ==
    /\ out'[c] # out[c]
    /\ out'[c].type = "error"
    /\ out'[c].code \in {"BAD_JSON", "UNKNOWN_TYPE"}

\* C37: a post-join record that cannot be decoded or is not an object is
\* answered by BAD_JSON and one whose type is not action by UNKNOWN_TYPE;
\* the error goes to the offender only, the session stays open, and the
\* mailboxes, the players' stacks and seats and the running hand are as
\* before.
C37_PumpErrors ==
    /\ [](\A rec \in PumpRecords :
            /\ PumpReplyTo(rec).type = "error"
            /\ rec.kind \in {"undecodable", "nonobject"}
                  => PumpReplyTo(rec).code = "BAD_JSON"
            /\ rec.kind = "object" => PumpReplyTo(rec).code = "UNKNOWN_TYPE")
    /\ [][ \A c \in Conns :
             PumpError(c) =>
                /\ \E rec \in PumpRecords : out'[c] = PumpReplyTo(rec)
                /\ out'[c].message = "Unknown message type"
                      <=> out'[c].code = "UNKNOWN_TYPE"
                /\ \A d \in Conns \ {c} : out'[d] = out[d]
                /\ cpc[c] = "pump" /\ cpc' = cpc
                /\ mailbox' = mailbox
                /\ players' = players
                /\ hand' = hand
                /\ tpc' = tpc /\ hand_number' = hand_number ]_vars

\* the actor of a running hand has been answered UNKNOWN_TYPE while the
\* hand loop waits for its action; its mailbox is empty and its session open
C37_UnknownTypeInTurn ==
    /\ tpc = "await"
    /\ cpc[ActorConn] = "pump"
    /\ out[ActorConn].type = "error"
    /\ out[ActorConn].code = "UNKNOWN_TYPE"
    /\ mailbox[ActorSeat(hand)] = <<>>


\* connection c ends at its first record, without a session
Turned(c) == cpc[c] = "new" /\ cpc'[c] = "closed"

\* C38: a connection whose first record is missing at the deadline, cannot
\* be decoded, is not an object or has a type other than join or spectate
\* is sent BAD_JOIN and closed; it and a rejected join (BAD_NAME,
\* TOURNAMENT_FULL, TOURNAMENT_STARTED) register no player and no
\* spectator, leave the roster and the lobby as they are, and put no
\* sentinel in any mailbox.
C38_RejectedFirstRecord ==
    /\ [](\A kind \in {"timeout", "notjson", "notobject", "othertype"} :
            FirstReplyTo(kind).code = "BAD_JOIN")
    /\ [][ \A c \in Conns :
             Turned(c) =>
                /\ \/ out'[c] = out[c]
                   \/ /\ out'[c].type = "error"
                      /\ out'[c].code \in {"BAD_JOIN", "BAD_NAME",
                                           "TOURNAMENT_FULL",
                                           "TOURNAMENT_STARTED"}
                      /\ out'[c].message = BadJoinText
                            <=> out'[c].code = "BAD_JOIN"
                /\ \A d \in Conns \ {c} : out'[d] = out[d]
                /\ players' = players
                /\ spectators' = spectators
                /\ mailbox' = mailbox
                /\ started' = started
                /\ lobbyReady' = lobbyReady
                /\ startTask' = startTask
                /\ tpc' = tpc ]_vars
    /\ [](\A c \in Conns :
            (cpc[c] = "closed" /\ out[c].type = "error") =>
               /\ c \notin spectators
               /\ \A i \in 1..Len(players) : players[i].websocket # c)

\* with players seated, one connection has been turned away with BAD_JOIN
\* and a join with BAD_NAME; every mailbox is empty
C38_TurnedAway ==
    /\ Len(players) = MIN_PLAYERS
    /\ \E c, d \in Conns :
          /\ cpc[c] = "closed" /\ out[c].code = "BAD_JOIN"
          /\ cpc[d] = "closed" /\ out[d].code = "BAD_NAME"
    /\ \A s \in Seats : mailbox[s] = <<>>


(***************************************************************************)
(* Start                                                                   *)
(***************************************************************************)
\* the seats of the roster, in roster order
RosterSeats(ps) == [i \in 1..Len(ps) |-> ps[i].seat_index]

\* C39: the tournament never starts with fewer than MIN_PLAYERS registered
\* players; the roster is fixed from the moment started is set, so the
\* names of game_start are the roster, and the roster of game_start is the
\* roster that is dealt into hand 1, whatever the order of joins, start
\* records and the steps of the start task.
C39_StartRoster ==
    /\ [](started => Len(players) >= MIN_PLAYERS)
    /\ [][ started => /\ started'
                      /\ Names(players') = Names(players)
                      /\ RosterSeats(players') = RosterSeats(players) ]_vars
    /\ [][ gameStarts' # gameStarts =>
             /\ started
             /\ \A c \in SentNow("game_start") :
                   out'[c].player_names = Names(players)
             /\ SentNow("game_start") # {} ]_vars
    /\ [][ (HandBegins /\ hand_number' = 1) =>
             hand'.active = RosterSeats(players) ]_vars

\* the first hand runs with a roster of MIN_PLAYERS while a later join has
\* been turned away with TOURNAMENT_STARTED
C39_LateJoinTurnedAway ==
    /\ started
    /\ hand # NoHand /\ hand_number = 1
    /\ Len(players) = MIN_PLAYERS
    /\ \E c \in Conns : cpc[c] = "closed" /\ out[c].code = "TOURNAMENT_STARTED"
====
